---- MODULE Spec2Model ----
(***************************************************************************)
(* A model of the Nuitka performance suite: the statistics of              *)
(* benchengine.Benchmark, the report of engine/tvenv.Benchmark, the sample *)
(* store benchengine.Benchmarks with its JSON files, run_benchmark and the *)
(* loop of main.py; then the exclusion table of benchengine, the           *)
(* environment that rework/utils hands to a child process, the rewriter of *)
(* rework/benchmark_prepare and the two compile functions.                 *)
(*                                                                         *)
(* Durations are integers; a mean is an exact rational [num, den] in       *)
(* lowest terms (statistics.mean computes the exact fraction before it     *)
(* converts it).  An Optional value is a record with the flag is_none.     *)
(***************************************************************************)
EXTENDS Integers, Sequences, FiniteSets, TLC

VARIABLES
    bench,        \* the benchengine.Benchmark object: nuitka_stats, cpython_stats
    ret,          \* outcome of the last calculate_stats / format_stats call
    stats_file,   \* the file that Benchmark.to_json_file is given
    results_json, \* engine: the file benchmark_results.json
    report_ret,   \* engine: outcome of the last Benchmark.report call
    store,        \* the benchengine.Benchmarks object
    disk,         \* per workload: its results directory and its result file
    upserted,     \* history: per key, the last record given to add_benchmark
    saved,        \* history: the records and the path of the last to_json_file
    op,           \* the last operation on the store
    frame,        \* the run_benchmark call under way: its arguments and locals
    bench_time,   \* the file bench_time.txt of the workload directory
    invocations,  \* history: the processes that run_benchmark has run
    pc,           \* main.py: the statement the script is at
    versions,     \* main.py: the versions the outer loop has still to take
    py_version,   \* main.py: python_version, the version of the outer loop
    todo,         \* main.py: the entries the inner loop has still to take
    entry,        \* main.py: benchmark, the entry of the inner loop
    cwd,          \* the working directory of the process
    current_directory, \* temporary_directory_change: the directory to go back to
    tree,         \* per workload directory: its script, requirements, venvs, dist
    results_file, \* per workload and version: the result file of the day
    bench_results,
    commands,     \* main.py: the provisioning commands still to run
    after,        \* main.py: how the try statement is left after its finally
    ran,          \* history: the commands run for the workload of the loop
    attempted,    \* history: the (version, workload) pairs the loop has taken
    causes,       \* history: why workloads have ended early
    os_name,      \* rework: os.name of the host
    environ,      \* rework: os.environ of the host
    popen_env,    \* rework: the env argument of the last subprocess.Popen
    completed,    \* rework: the CompletedProcess of the last command
    CURRENT_PLATFORM, \* benchengine: platform.system()
    PYTHON_VERSION,   \* benchengine: sys.version_info[:2]
    excluded,     \* the last check_if_excluded call: its argument and result
    benchmark_path, \* rework: benchmark_path.name
    run_benchmark_py, \* rework: the file run_benchmark.py of the workload
    prepared,     \* rework: prepare_benchmark_file has returned
    compiler,     \* the compile under way: "engine" (Benchmark.compile) or "rework"
    compile_pc,   \* compile: the statement it is at, or how it has ended
    original_contents, \* compile: the contents read before the rewriting
    requirements_exist, \* compile: requirements.txt exists
    build_commands, \* compile: the commands still to run
    compile_exc,  \* compile: the exception on its way out of the call
    contents_before \* history: run_benchmark.py when compile was called

statsVars == <<bench, ret, stats_file>>
reportVars == <<results_json, report_ret>>
storeVars == <<store, disk, upserted, saved, op>>
runVars == <<frame, bench_time, invocations>>
mainVars == <<pc, versions, py_version, todo, entry, cwd, current_directory, tree,
              results_file,
              bench_results, commands, after, ran, attempted, causes>>
orchestratorVars == <<runVars, mainVars>>
envVars == <<os_name, environ, popen_env, completed>>
exclusionVars == <<CURRENT_PLATFORM, PYTHON_VERSION, excluded>>
prepareVars == <<benchmark_path, run_benchmark_py, prepared>>
compileVars == <<compiler, compile_pc, original_contents, requirements_exist, build_commands,
                 compile_exc, contents_before>>
supportVars == <<envVars, exclusionVars, prepareVars, compileVars>>
vars == <<bench, ret, stats_file, results_json, report_ret, store, disk, upserted, saved, op,
          orchestratorVars, supportVars>>

----------------------------------------------------------------------------
(* Bounds *)

\* longest sample series drawn exhaustively
MaxLen == 2

\* the sample values drawn exhaustively
Samples == {0, 1}

----------------------------------------------------------------------------
(* Exact rationals *)

RECURSIVE GCD(_, _)
GCD(a, b) == IF b = 0 THEN a ELSE GCD(b, a % b)

Abs(x) == IF x < 0 THEN -x ELSE x

\* n/d in lowest terms, d > 0
Rat(n, d) ==
    LET g == GCD(Abs(n), Abs(d))
        s == IF d < 0 THEN -1 ELSE 1
    IN  [num |-> s * (n \div g), den |-> s * (d \div g)]

RatOfInt(n) == [num |-> n, den |-> 1]
RatLt(p, q) == p.num * q.den < q.num * p.den
RatLe(p, q) == p.num * q.den <= q.num * p.den
RatSub(p, q) == Rat(p.num * q.den - q.num * p.den, p.den * q.den)
RatMul(p, q) == Rat(p.num * q.num, p.den * q.den)
\* p / q for q # 0
RatDiv(p, q) == Rat(p.num * q.den, p.den * q.num)

NoRat == [num |-> 0, den |-> 0]

----------------------------------------------------------------------------
(* Python built-ins on lists *)

RECURSIVE Sum(_)
Sum(s) == IF s = <<>> THEN 0 ELSE Head(s) + Sum(Tail(s))

\* min(s) of a non-empty list
Min(s) == CHOOSE x \in {s[i] : i \in DOMAIN s} : \A i \in DOMAIN s : x <= s[i]

Max(s) == CHOOSE x \in {s[i] : i \in DOMAIN s} : \A i \in DOMAIN s : x >= s[i]

\* statistics.mean(s) of a non-empty list
mean(s) == Rat(Sum(s), Len(s))

\* s[k:] for k in {0, 1}; the slice of a bool index: False is 0, True is 1
SliceFrom(s, skewed) == IF skewed THEN SubSeq(s, 2, Len(s)) ELSE s

\* max(a, b) in the place of min(a, b)
max2(a, b) == IF RatLt(a, b) THEN b ELSE a

\* min(a, b) of two numbers: b only when it is strictly smaller
min2(a, b) == IF RatLt(b, a) THEN b ELSE a

----------------------------------------------------------------------------
(* benchengine.Stats and benchengine.Benchmark *)

Stats(w, b) == [is_none |-> FALSE, warmup |-> w, benchmark |-> b]
None == [is_none |-> TRUE, warmup |-> <<>>, benchmark |-> <<>>]

Benchmark(n, c) == [nuitka_stats |-> n, cpython_stats |-> c]

SeriesPool == UNION {[1 .. k -> Samples] : k \in 0 .. MaxLen}
StatsPool == {None} \cup {Stats(w, b) : w \in SeriesPool, b \in SeriesPool}

\* the series of the documented examples
Skewed5 == <<5, 10, 10, 10>>
Unskewed50 == <<50, 10, 10, 10>>
EndToEnd == Benchmark(Stats(<<12, 9, 9, 9>>, <<8, 8, 8, 8>>),
                      Stats(<<20, 15, 15, 15>>, <<14, 14, 14, 14>>))
Faster8v10 == Benchmark(Stats(<<8, 8>>, <<8, 8>>), Stats(Skewed5, Unskewed50))
Slower10v8 == Benchmark(Stats(Skewed5, Unskewed50), Stats(<<8, 8>>, <<8, 8>>))
Equal10 == Benchmark(Stats(Skewed5, Unskewed50), Stats(Unskewed50, Skewed5))
Examples == {EndToEnd, Faster8v10, Slower10v8, Equal10}

BenchInputs == {Benchmark(n, c) : n \in StatsPool, c \in StatsPool} \cup Examples

\* the values of the parameter `which`
Whiches == {"nuitka", "cpython", "NUITKA", "pypy"}

\* str.lower on the values of Whiches
lower(w) == IF w = "NUITKA" THEN "nuitka" ELSE w

NoText == [sign |-> "", hundredths |-> 0, style |-> ""]

Outcome(o, which, exc, w, b, v, n, c, t) ==
    [op |-> o, which |-> which, exc |-> exc, warmup |-> w, benchmark |-> b,
     value |-> v, nuitka |-> n, cpython |-> c, text |-> t]

NoCall == Outcome("", "", "", NoRat, NoRat, NoRat, NoRat, NoRat, NoText)

\* max(series) == series[0]: the first sample is the largest
is_skewed_high(series) == Max(series) = series[1]

\* min(series) == series[0]
is_skewed(series) == Min(series) = series[1]

\* Benchmark.calculate_stats: the exception it ends in ("" for none), its locals
\* warmup and benchmark, and the value returned
calculate_stats(b, which) ==
    IF lower(which) \notin {"nuitka", "cpython"}
    THEN Outcome("calculate_stats", which, "ValueError", NoRat, NoRat, NoRat, NoRat, NoRat, NoText)
    ELSE IF b.nuitka_stats.is_none \/ b.cpython_stats.is_none
    THEN Outcome("calculate_stats", which, "ValueError", NoRat, NoRat, NoRat, NoRat, NoRat, NoText)
    ELSE LET stats == IF lower(which) = "nuitka" THEN b.nuitka_stats ELSE b.cpython_stats
         IN  IF stats.warmup = <<>> \/ stats.benchmark = <<>>
             THEN \* min() of an empty list
                  Outcome("calculate_stats", which, "ValueError", NoRat, NoRat, NoRat, NoRat, NoRat, NoText)
             ELSE LET is_warmup_skewed == is_skewed(stats.warmup)
                      is_benchmark_skewed == is_skewed(stats.benchmark)
                      ws == SliceFrom(stats.warmup, is_warmup_skewed)
                      bs == SliceFrom(stats.benchmark, is_benchmark_skewed)
                  IN  IF ws = <<>>
                      THEN \* mean() of an empty list
                           Outcome("calculate_stats", which, "StatisticsError", NoRat, NoRat, NoRat, NoRat, NoRat, NoText)
                      ELSE IF bs = <<>>
                      THEN Outcome("calculate_stats", which, "StatisticsError", mean(ws), NoRat, NoRat, NoRat, NoRat, NoText)
                      ELSE Outcome("calculate_stats", which, "", mean(ws), mean(bs),
                                   min2(mean(ws), mean(bs)), NoRat, NoRat, NoText)

\* the file of Benchmark.to_json_file: absent, or the dumped contents
NoStatsFile == [exists |-> FALSE, nuitka |-> None, cpython |-> None]
StatsFile(n, c) == [exists |-> TRUE, nuitka |-> n, cpython |-> c]

\* Benchmark.to_json_file: the exception it ends in ("" for none) and the file
benchmark_to_json_file(b, file) ==
    IF b.nuitka_stats.is_none \/ b.cpython_stats.is_none
    THEN [exc |-> "ValueError", file |-> file]
    ELSE [exc |-> "",
          file |-> StatsFile(Stats(b.nuitka_stats.warmup, b.nuitka_stats.benchmark),
                             Stats(b.cpython_stats.warmup, b.cpython_stats.benchmark))]

\* f"{x:.2f}" of x >= 0, as the number of hundredths: round half to even
Round2(x) ==
    LET n == 100 * x.num
        q == n \div x.den
        r == n % x.den
    IN  IF 2 * r > x.den \/ (2 * r = x.den /\ q % 2 = 1) THEN q + 1 ELSE q

Text(sign, x, style) == [sign |-> sign, hundredths |-> Round2(x), style |-> style]

\* (a - b) / base * 100 with base the mean of another mode's series
difference_of_first(a, b, base) ==
    IF a.num = 0
    THEN [exc |-> "ZeroDivisionError", value |-> NoRat]
    ELSE [exc |-> "", value |-> RatMul(RatDiv(RatSub(a, b), a), RatOfInt(100))]

\* (a - b) / base * 100 that yields 0 for a == b without dividing
difference_guarded(a, b, base) ==
    IF a = b
    THEN [exc |-> "", value |-> RatOfInt(0)]
    ELSE IF base.num = 0
    THEN [exc |-> "ZeroDivisionError", value |-> NoRat]
    ELSE [exc |-> "", value |-> RatMul(RatDiv(RatSub(a, b), base), RatOfInt(100))]

\* the expression (a - b) / base * 100: Python raises ZeroDivisionError for a
\* zero divisor, of ints and of floats alike
difference(a, b, base) ==
    IF base.num = 0
    THEN [exc |-> "ZeroDivisionError", value |-> NoRat]
    ELSE [exc |-> "", value |-> RatMul(RatDiv(RatSub(a, b), base), RatOfInt(100))]

\* Align.center(Text(f"{sign}{d:.2f}%", style)) or the exception of d
Formatted(n, c, sign, d, style) ==
    IF d.exc # ""
    THEN Outcome("format_stats", "", d.exc, NoRat, NoRat, NoRat, n, c, NoText)
    ELSE Outcome("format_stats", "", "", NoRat, NoRat, NoRat, n, c, Text(sign, d.value, style))

\* Benchmark.format_stats
format_stats(b) ==
    LET n == calculate_stats(b, "nuitka")
        c == calculate_stats(b, "cpython")
    IN  IF n.exc # ""
        THEN Outcome("format_stats", "", n.exc, NoRat, NoRat, NoRat, NoRat, NoRat, NoText)
        ELSE IF c.exc # ""
        THEN Outcome("format_stats", "", c.exc, NoRat, NoRat, NoRat, n.value, NoRat, NoText)
        ELSE LET nuitka_stats == n.value
                 cpython_stats == c.value
             IN  IF RatLt(nuitka_stats, cpython_stats)
                 THEN Formatted(nuitka_stats, cpython_stats, "+",
                                difference(cpython_stats, nuitka_stats, cpython_stats), "green")
                 ELSE IF RatLt(cpython_stats, nuitka_stats)
                 THEN Formatted(nuitka_stats, cpython_stats, "-",
                                difference(nuitka_stats, cpython_stats, cpython_stats), "red")
                 ELSE Formatted(nuitka_stats, cpython_stats, "",
                                difference(nuitka_stats, cpython_stats, cpython_stats), "yellow")

----------------------------------------------------------------------------
(* engine/tvenv.Benchmark: run and report on benchmark_results.json *)

\* most entries of a "results" list drawn exhaustively
MaxResults == 2

\* largest mean of an entry, in whole time units
MaxMean == 2

PythonCommand == ".venv/bin/python run_benchmark.py"
Executables == {"./run_benchmark.sh", "./run_benchmark.bin"}
Commands == {PythonCommand, "sleep 1"} \cup Executables

\* needle in command, for the two needles of report and the commands above
contains(command, needle) ==
    \/ needle = ".venv/bin/python" /\ command = PythonCommand
    \/ needle = "./run_benchmark" /\ command \in Executables

\* an entry of hyperfine's export; median, stddev, min and max are copied to
\* the summary as they are and are left out here
Entries == [command : Commands, mean : 0 .. MaxMean]

NoFile == [exists |-> FALSE, has_results |-> FALSE, results |-> <<>>]
Document(has, rs) == [exists |-> TRUE, has_results |-> has, results |-> rs]

ResultFiles ==
    {NoFile, Document(FALSE, <<>>)}
    \cup {Document(TRUE, rs) : rs \in UNION {[1 .. k -> Entries] : k \in 0 .. MaxResults}}

\* a float: float("inf") or a finite number
Inf == [inf |-> TRUE, num |-> 0, den |-> 0]
Finite(r) == [inf |-> FALSE, num |-> r.num, den |-> r.den]

EngineOutcome(call, kind, s, p, f) ==
    [call |-> call, kind |-> kind, speedup_ratio |-> s, percent_change |-> p,
     is_nuitka_faster |-> f]

NoEngineCall == EngineOutcome("", "", Finite(NoRat), Finite(NoRat), FALSE)

\* next((r for r in results if needle in r["command"]), None), as a list of
\* at most one entry
first_with(results, needle) ==
    LET hits == {i \in DOMAIN results : contains(results[i].command, needle)}
    IN  IF hits = {} THEN <<>>
        ELSE <<results[CHOOSE i \in hits : \A j \in hits : i <= j]>>

\* python_mean / nuitka_mean if nuitka_mean > 0 else float("inf")
speedup(python_mean, nuitka_mean) ==
    IF nuitka_mean > 0 THEN Finite(Rat(python_mean, nuitka_mean)) ELSE Inf

\* (1 - nuitka_mean / python_mean) * 100 if python_mean > 0 else float("inf")
percent(python_mean, nuitka_mean) ==
    IF python_mean > 0
    THEN Finite(RatMul(RatSub(RatOfInt(1), Rat(nuitka_mean, python_mean)), RatOfInt(100)))
    ELSE Inf

\* speedup_ratio > 1
above_one(x) == x.inf \/ x.num > x.den

\* Benchmark.report
report(file) ==
    IF ~file.exists
    THEN EngineOutcome("report", "FileNotFoundError", Finite(NoRat), Finite(NoRat), FALSE)
    ELSE IF ~file.has_results \/ Len(file.results) # 2
    THEN EngineOutcome("report", "error", Finite(NoRat), Finite(NoRat), FALSE)
    ELSE LET python_data == first_with(file.results, ".venv/bin/python")
             nuitka_data == first_with(file.results, "./run_benchmark")
         IN  IF python_data = <<>> \/ nuitka_data = <<>>
             THEN EngineOutcome("report", "error", Finite(NoRat), Finite(NoRat), FALSE)
             ELSE LET python_mean == python_data[1].mean
                      nuitka_mean == nuitka_data[1].mean
                      speedup_ratio == speedup(python_mean, nuitka_mean)
                  IN  EngineOutcome("report", "summary", speedup_ratio,
                                    percent(python_mean, nuitka_mean),
                                    above_one(speedup_ratio))

IdleReport == results_json = NoFile /\ report_ret = NoEngineCall

----------------------------------------------------------------------------
(* benchengine.BenchmarkHolder and benchengine.Benchmarks *)

\* number of distinct sample sets a record is drawn from
MaxTag == 2

Versions == {"3.9", "3.10"}
Workloads == {"bm_2to3", "bm_chameleon"}
\* the workload whose store and result file SpecStore follows
StoreWorkload == "bm_2to3"

EmptyMap == [k \in {} |-> {}]

BenchmarkV2(warmup, benchmark) == [warmup |-> warmup, benchmark |-> benchmark]
BenchmarkFile(standard, factory) == [standard |-> standard, factory |-> factory]

\* the dataclass BenchmarkHolder, its fields in the order of the declaration
BenchmarkHolder(benchmark_name, python_version, CPython_benchmark, Nuitka_benchmark) ==
    [benchmark_name |-> benchmark_name, python_version |-> python_version,
     CPython_benchmark |-> CPython_benchmark, Nuitka_benchmark |-> Nuitka_benchmark]

\* BenchmarkHolder(name, version, BenchmarkFile(), BenchmarkFile())
EmptyHolder(name, version) ==
    BenchmarkHolder(name, version,
                    BenchmarkFile(BenchmarkV2(<<>>, <<>>), BenchmarkV2(<<>>, <<>>)),
                    BenchmarkFile(BenchmarkV2(<<>>, <<>>), BenchmarkV2(<<>>, <<>>)))

\* a record whose eight series differ from each other and from those of
\* another tag
TaggedHolder(name, version, t) ==
    BenchmarkHolder(name, version,
                    BenchmarkFile(BenchmarkV2(<<10 + t, 11>>, <<20 + t, 21>>),
                                  BenchmarkV2(<<30 + t, 31>>, <<40 + t, 41>>)),
                    BenchmarkFile(BenchmarkV2(<<50 + t, 51>>, <<60 + t, 61>>),
                                  BenchmarkV2(<<70 + t, 71>>, <<80 + t, 81>>)))

\* BenchmarkHolder.to_dict, without the outer key python_version
to_dict(h) ==
    [Standard |-> [Nuitka |-> [Warmup |-> h.Nuitka_benchmark.standard.warmup,
                               Benchmark |-> h.Nuitka_benchmark.standard.benchmark],
                   CPython |-> [Warmup |-> h.CPython_benchmark.standard.warmup,
                                Benchmark |-> h.CPython_benchmark.standard.benchmark]],
     Factory |-> [Nuitka |-> [Warmup |-> h.Nuitka_benchmark.factory.warmup,
                              Benchmark |-> h.Nuitka_benchmark.factory.benchmark],
                  CPython |-> [Warmup |-> h.CPython_benchmark.factory.warmup,
                               Benchmark |-> h.CPython_benchmark.factory.benchmark]]]

\* BenchmarkHolder.from_dict: cls(...) passes the Nuitka series as the third
\* argument and the CPython series as the fourth
from_dict(benchmark_dict, benchmark_name, python_version) ==
    LET standard == benchmark_dict.Standard
        factory == benchmark_dict.Factory
        standard_nuitka == standard.Nuitka
        standard_cpython == standard.CPython
        factory_nuitka == factory.Nuitka
        factory_cpython == factory.CPython
    IN  BenchmarkHolder(benchmark_name, python_version,
                        BenchmarkFile(BenchmarkV2(standard_nuitka.Warmup, standard_nuitka.Benchmark),
                                      BenchmarkV2(factory_nuitka.Warmup, factory_nuitka.Benchmark)),
                        BenchmarkFile(BenchmarkV2(standard_cpython.Warmup, standard_cpython.Benchmark),
                                      BenchmarkV2(factory_cpython.Warmup, factory_cpython.Benchmark)))

\* self.benchmarks.setdefault(benchmark.python_version, benchmark)
add_benchmark_setdefault(benchmarks, benchmark) ==
    IF benchmark.python_version \in DOMAIN benchmarks
    THEN benchmarks
    ELSE [v \in DOMAIN benchmarks \cup {benchmark.python_version} |->
             IF v = benchmark.python_version THEN benchmark ELSE benchmarks[v]]

\* Benchmarks.add_benchmark: self.benchmarks[benchmark.python_version] = benchmark
add_benchmark(benchmarks, benchmark) ==
    [v \in DOMAIN benchmarks \cup {benchmark.python_version} |->
        IF v = benchmark.python_version THEN benchmark ELSE benchmarks[v]]

\* the keys of a JSON object in the order of the document
KeyOrders(doc) ==
    {o \in [1 .. Cardinality(DOMAIN doc) -> DOMAIN doc] :
        \A i, j \in DOMAIN o : i # j => o[i] # o[j]}

\* the loop of Benchmarks.from_json_file over the keys from position i on
RECURSIVE from_json_loop(_, _, _, _, _)
from_json_loop(benchmarks, name, contents, order, i) ==
    IF i > Len(order)
    THEN benchmarks
    ELSE from_json_loop(add_benchmark(benchmarks, from_dict(contents[order[i]], name, order[i])),
                        name, contents, order, i + 1)

\* a result file: absent, zero-length, or a JSON document
Absent == [kind |-> "absent", doc |-> EmptyMap]
ZeroLength == [kind |-> "empty", doc |-> EmptyMap]
Json(doc) == [kind |-> "json", doc |-> doc]

\* Benchmarks.from_json_file: the exception ("" for none) and the records
from_json_file(benchmarks, name, file, order) ==
    IF file.kind = "absent"
    THEN [exc |-> "FileNotFoundError", benchmarks |-> benchmarks]
    ELSE IF file.kind = "empty"
    THEN [exc |-> "JSONDecodeError", benchmarks |-> benchmarks]
    ELSE IF DOMAIN file.doc = {}
    THEN [exc |-> "", benchmarks |-> benchmarks]
    ELSE [exc |-> "", benchmarks |-> from_json_loop(benchmarks, name, file.doc, order, 1)]

\* the contents that Benchmarks.to_json_file dumps
to_json(benchmarks) ==
    [v \in {benchmarks[k].python_version : k \in DOMAIN benchmarks} |->
        to_dict(benchmarks[CHOOSE k \in DOMAIN benchmarks : benchmarks[k].python_version = v])]

\* Benchmarks(benchmarks_name=name)
Benchmarks(name, benchmarks) == [benchmarks_name |-> name, benchmarks |-> benchmarks]

Directory(results_dir, file) == [results_dir |-> results_dir, file |-> file]

NoSave == [valid |-> FALSE, path |-> "", benchmarks |-> EmptyMap]
Op(name, exc, path, key, existed, was_empty) ==
    [name |-> name, exc |-> exc, path |-> path, key |-> key, existed |-> existed,
     was_empty |-> was_empty]
NoOp == Op("", "", "", "", FALSE, FALSE)

IdleStore ==
    /\ store = Benchmarks("", EmptyMap)
    /\ disk = EmptyMap
    /\ upserted = EmptyMap
    /\ saved = NoSave
    /\ op = NoOp

----------------------------------------------------------------------------
(* benchengine.Benchmark.from_path *)

\* a part of a file name between two dots: digits with their value, or a word
Digits(text, value) == [text |-> text, is_int |-> TRUE, int |-> value]
Word(text) == [text |-> text, is_int |-> FALSE, int |-> 0]

\* file_path.stem as the list of its fields between "-", each field the list
\* of its parts between "."
PlatformStem == <<<<Word("Linux")>>, <<Digits("3", 3), Digits("9", 9)>>,
                  <<Digits("2", 2), Digits("0", 0)>>>>
\* the stem of the file main.py writes: f"{nuitka_name}-{python_version}"
MainStem == <<<<Word("Nuitka")>>, <<Word("release")>>, <<Digits("3", 3), Digits("9", 9)>>>>
Stems == {PlatformStem, MainStem, <<<<Word("Linux")>>>>}

\* Benchmark.parse_file_name: the exception ("" for none) and python_version
parse_file_name(file_name) ==
    IF Len(file_name) # 3
    THEN [exc |-> "ValueError", python_version |-> <<>>]
    ELSE LET _pyver_split == file_name[2]
         IN  IF ~_pyver_split[1].is_int
             THEN [exc |-> "ValueError", python_version |-> <<>>]
             ELSE IF Len(_pyver_split) < 2
             THEN [exc |-> "IndexError", python_version |-> <<>>]
             ELSE IF ~_pyver_split[2].is_int
             THEN [exc |-> "ValueError", python_version |-> <<>>]
             ELSE [exc |-> "", python_version |-> <<_pyver_split[1].int, _pyver_split[2].int>>]

\* the document of a per-run result file
StatsDocument(n, c) ==
    [nuitka |-> [warmup |-> n.warmup, benchmark |-> n.benchmark],
     cpython |-> [warmup |-> c.warmup, benchmark |-> c.benchmark]]

\* the series of the per-run result files: none or one sample
ShortSeries == {<<>>} \cup {<<x>> : x \in Samples}
StatsDocuments ==
    {EmptyMap} \cup {StatsDocument(Stats(nw, nb), Stats(cw, cb)) :
                        nw \in ShortSeries, nb \in ShortSeries,
                        cw \in ShortSeries, cb \in ShortSeries}

\* Stats.from_dict
stats_from_dict(stats_dict) == Stats(stats_dict.warmup, stats_dict.benchmark)

\* the result of from_path: the exception ("" for none) and the object returned
Built(exc, benchmark) == [exc |-> exc, benchmark |-> benchmark]

\* from_path without the test of st_size: open and load report what they find
from_path_unchecked(file, stem) ==
    IF file.kind = "absent"
    THEN Built("FileNotFoundError", Benchmark(None, None))
    ELSE IF file.kind = "empty"
    THEN Built("JSONDecodeError", Benchmark(None, None))
    ELSE Built("", Benchmark(None, None))

\* Benchmark.from_path
from_path(file, stem) ==
    IF file.kind = "absent"
    THEN \* file_path.stat() of a missing file
         Built("FileNotFoundError", Benchmark(None, None))
    ELSE IF file.kind = "empty"
    THEN Built("FileNotFoundError", Benchmark(None, None))
    ELSE LET file_json == file.doc
             file_info == parse_file_name(stem)
         IN  IF file_info.exc # ""
             THEN Built(file_info.exc, Benchmark(None, None))
             ELSE IF "nuitka" \notin DOMAIN file_json \/ "cpython" \notin DOMAIN file_json
             THEN Built("KeyError", Benchmark(None, None))
             ELSE Built("", Benchmark(stats_from_dict(file_json.nuitka),
                                      stats_from_dict(file_json.cpython)))

----------------------------------------------------------------------------
(* run_benchmark of Utilities and of benchengine *)

\* iterations of each loop of run_benchmark (main.py: ITERATIONS = 100)
ITERATIONS == 2

\* a process that run() has waited for: its exit code, its duration, and
\* whether it wrote its duration to bench_time.txt
Exit(returncode, time_taken, writes) ==
    [returncode |-> returncode, time_taken |-> time_taken, writes |-> writes]

\* the processes of a workload timed by Timer, and of one that reports its
\* duration in bench_time.txt
TimedProcesses == {Exit(0, t, FALSE) : t \in Samples} \cup {Exit(1, 0, FALSE)}
ReportingProcesses ==
    {Exit(0, t, TRUE) : t \in Samples} \cup {Exit(0, 0, FALSE), Exit(1, 0, FALSE)}

NoBenchTime == [exists |-> FALSE, value |-> 0]
BenchTime(v) == [exists |-> TRUE, value |-> v]
\* a value that an earlier run has left in bench_time.txt
StaleBenchTime == BenchTime(9)

\* the frame of a run_benchmark call: fn is the module of the function, phase
\* the loop it is in ("warmup", "benchmark") or how it ended ("returned",
\* "raised"), done the iterations of that loop completed
RunCall(fn, type, iterations, phase, done, warmup, benchmark, exc) ==
    [fn |-> fn, type |-> type, iterations |-> iterations, phase |-> phase, done |-> done,
     warmup |-> warmup, benchmark |-> benchmark, exc |-> exc]

NoRunCall == RunCall("", "", 0, "", 0, <<>>, <<>>, "")

\* the end of a for loop over range(iterations): the warm-up loop is followed
\* by the benchmark loop, the benchmark loop by the return
advance(c) ==
    LET b == IF c.phase = "warmup" /\ c.done = c.iterations
             THEN [c EXCEPT !.phase = "benchmark", !.done = 0]
             ELSE c
    IN  IF b.phase = "benchmark" /\ b.done = b.iterations
        THEN [b EXCEPT !.phase = "returned"]
        ELSE b

\* the call up to the first run() of a process
enter_run_benchmark(fn, type, iterations) ==
    advance(RunCall(fn, type, iterations, "warmup", 0, <<>>, <<>>, ""))

\* an exception leaves the function: its locals are dropped
raised(c, exc) ==
    [c EXCEPT !.phase = "raised", !.exc = exc, !.warmup = <<>>, !.benchmark = <<>>]

\* results.append(time_taken) in the loop of the phase
appended(c, time_taken) ==
    IF c.phase = "warmup"
    THEN [c EXCEPT !.warmup = Append(@, time_taken), !.done = @ + 1]
    ELSE [c EXCEPT !.benchmark = Append(@, time_taken), !.done = @ + 1]

\* bench_time.txt after the process res
written(file, res) == IF res.writes THEN BenchTime(res.time_taken) ELSE file

\* one iteration that puts the new sample in front of the earlier ones
run_iteration_prepend(c, file, res) ==
    IF res.returncode # 0
    THEN raised(c, "RuntimeError")
    ELSE LET time_taken == IF c.fn = "Utilities" THEN res.time_taken
                           ELSE written(file, res).value
         IN  advance(IF c.phase = "warmup"
                     THEN [c EXCEPT !.warmup = <<time_taken>> \o @, !.done = @ + 1]
                     ELSE [c EXCEPT !.benchmark = <<time_taken>> \o @, !.done = @ + 1])

\* one iteration that does not look at the exit code
run_iteration_unchecked(c, file, res) ==
    IF c.fn = "Utilities"
    THEN advance(appended(c, res.time_taken))
    ELSE IF ~written(file, res).exists
    THEN raised(c, "FileNotFoundError")
    ELSE advance(appended(c, written(file, res).value))

\* one iteration of the loop of the phase, after run() has come back with res:
\* the frame of the call afterwards
run_iteration(c, file, res) ==
    IF res.returncode # 0
    THEN raised(c, "RuntimeError")
    ELSE IF c.fn = "Utilities"
    THEN \* timer.time_taken
         advance(appended(c, res.time_taken))
    ELSE IF ~written(file, res).exists
    THEN \* open("bench_time.txt")
         raised(c, "FileNotFoundError")
    ELSE \* int(f.read())
         advance(appended(c, written(file, res).value))

\* an entry of the history: the process, the loop that ran it and
\* bench_time.txt after it
Invocation(c, file, res) ==
    [type |-> c.type, phase |-> c.phase, returncode |-> res.returncode,
     time_taken |-> res.time_taken, writes |-> res.writes,
     bench_time |-> written(file, res)]

IdleRun == frame = NoRunCall /\ bench_time = NoBenchTime /\ invocations = <<>>
----------------------------------------------------------------------------
(* main.py *)

\* the entries of benchmarks/: workload directories, another directory
\* ("__pycache__") and a file ("clean.py")
is_dir(e) == e # "clean.py"
startswith_bm(e) == e \in Workloads

\* two of the orders in which iterdir may yield the entries
Listings ==
    {<<"__pycache__", "bm_2to3", "bm_chameleon", "clean.py">>,
     <<"bm_chameleon", "clean.py", "bm_2to3", "__pycache__">>}

\* the versions that parse_py_launcher returns, in its order
LauncherVersions == <<"3.9", "3.10">>

\* a workload directory
WorkloadDir(script, requirements, venv, dist) ==
    [script |-> script, requirements |-> requirements, venv |-> venv, dist |-> dist]

\* a result file that was closed before json.dump had written all of the document
Partial == [kind |-> "partial", doc |-> EmptyMap]

\* bench_results as main.py creates it and as run_benchmark fills it
Series(warmup, benchmark_) == [warmup |-> warmup, benchmark |-> benchmark_]
EmptyResults == [nuitka |-> Series(<<>>, <<>>), cpython |-> Series(<<>>, <<>>)]

\* the provisioning commands of main.py in their order
provisioning(requirements_exists) ==
    IF requirements_exists
    THEN <<"--version", "pip install --upgrade pip", "pip install -r requirements.txt",
           "pip install Nuitka", "pip install ordered-set", "pip install appdirs",
           "nuitka --standalone">>
    ELSE <<"--version", "pip install --upgrade pip",
           "pip install Nuitka", "pip install ordered-set", "pip install appdirs",
           "nuitka --standalone">>

\* temporary_directory_change(path) for a path that exists: os.chdir(path),
\* yield, os.chdir(current_directory); an exception in the block is raised at
\* the yield
temporary_directory_change(current, path, exit) ==
    IF exit = "raise" THEN path ELSE current

\* the test that passes every directory
any_directory(dir) == TRUE

\* (orig_path / "run_benchmark.py").exists()
has_run_benchmark(dir) == dir.script

\* an entry of the history of a workload: a command and its exit code
Ran(command, returncode) == [command |-> command, returncode |-> returncode]

\* the statements inside the try statement of main.py
InTry == {"commands", "nuitka", "cpython", "write", "dump", "stats"}

\* the statements inside the with statement of main.py
InBlock == InTry \cup {"venv", "finally"}

\* the processes of a workload in main.py: one duration
MainProcesses == {Exit(0, 1, FALSE), Exit(1, 0, FALSE)}

IdleMain ==
    /\ pc = "" /\ versions = <<>> /\ py_version = "" /\ todo = <<>>
    /\ entry = "" /\ cwd = "." /\ current_directory = "."
    /\ tree = EmptyMap /\ results_file = EmptyMap
    /\ bench_results = EmptyResults /\ commands = <<>> /\ after = ""
    /\ ran = <<>> /\ attempted = {} /\ causes = {}

IdleOrchestrator == IdleRun /\ IdleMain

----------------------------------------------------------------------------
(* benchengine: EXCLUSIONS and check_if_excluded *)

\* an item of the table of a platform
Case(key, value) == [key |-> key, value |-> value]

\* EXCLUSIONS.get(CURRENT_PLATFORM).items(), <<>> for None
EXCLUSIONS(system) ==
    CASE system = "Linux" -> <<Case(<<3, 9>>, {"bm_django_template"}),
                               Case(<<3, 12>>, {"bm_2to3"})>>
      [] system = "Windows" -> <<Case(<<3, 9>>, {"bm_django_template"})>>
      [] OTHER -> <<>>

Platforms == {"Linux", "Windows", "Darwin"}
PythonVersions == {<<2, 7>>, <<3, 8>>, <<3, 9>>, <<3, 10>>, <<3, 12>>, <<3, 13>>, <<4, 0>>}
BenchmarkNames ==
    {"bm_django_template", "bm_2to3", "bm_chameleon", "bm_docutils", "bm_recursion"}

\* a == b on tuples
tuple_eq(a, b) == a = b

\* a <= b on tuples of two integers
tuple_le(a, b) == a[1] < b[1] \/ (a[1] = b[1] /\ a[2] <= b[2])

\* the loop of check_if_excluded from the i-th item of cases on
RECURSIVE check_if_excluded_loop(_, _, _, _)
check_if_excluded_loop(cases, version, name, i) ==
    IF i > Len(cases)
    THEN FALSE
    ELSE IF tuple_le(version, cases[i].key) /\ name \in cases[i].value
    THEN TRUE
    ELSE check_if_excluded_loop(cases, version, name, i + 1)

\* check_if_excluded(benchmark) for benchmark.name = name
check_if_excluded(system, version, name) ==
    check_if_excluded_loop(EXCLUSIONS(system), version, name, 1)

NotChecked == [called |-> FALSE, name |-> "", result |-> FALSE]
Checked(name, result) == [called |-> TRUE, name |-> name, result |-> result]

IdleExclusion ==
    /\ CURRENT_PLATFORM = "Linux"
    /\ PYTHON_VERSION = <<3, 9>>
    /\ excluded = NotChecked

----------------------------------------------------------------------------
(* rework/utils.py: the environment of the child processes *)

\* NECESSARY_ENV_VARS["nt"]
NECESSARY_ENV_VARS_NT ==
    <<"ALLUSERSPROFILE", "APPDATA", "COMPUTERNAME", "ComSpec", "CommonProgramFiles",
      "CommonProgramFiles(x86)", "CommonProgramW6432", "HOMEDRIVE", "HOMEPATH",
      "LOCALAPPDATA", "NUMBER_OF_PROCESSORS", "OS", "PATHEXT",
      "PROCESSOR_ARCHITECTURE", "PROCESSOR_IDENTIFIER", "PROCESSOR_LEVEL",
      "PROCESSOR_REVISION", "Path", "ProgramData", "ProgramFiles",
      "ProgramFiles(x86)", "ProgramW6432", "SystemDrive", "SystemRoot", "TEMP",
      "TMP", "USERDNSDOMAIN", "USERDOMAIN", "USERDOMAIN_ROAMINGPROFILE",
      "USERNAME", "USERPROFILE", "windir">>

NECESSARY_ENV_VARS_DEFAULT == <<"HOME", "PATH">>

\* the values of os.name
OsNames == {"posix", "nt", "java"}

\* str.upper on the names of the allow-lists
upper(name) ==
    CASE name = "ComSpec" -> "COMSPEC"
      [] name = "CommonProgramFiles" -> "COMMONPROGRAMFILES"
      [] name = "CommonProgramFiles(x86)" -> "COMMONPROGRAMFILES(X86)"
      [] name = "CommonProgramW6432" -> "COMMONPROGRAMW6432"
      [] name = "Path" -> "PATH"
      [] name = "ProgramData" -> "PROGRAMDATA"
      [] name = "ProgramFiles" -> "PROGRAMFILES"
      [] name = "ProgramFiles(x86)" -> "PROGRAMFILES(X86)"
      [] name = "ProgramW6432" -> "PROGRAMW6432"
      [] name = "SystemDrive" -> "SYSTEMDRIVE"
      [] name = "SystemRoot" -> "SYSTEMROOT"
      [] name = "windir" -> "WINDIR"
      [] OTHER -> name

\* the key under which os.environ keeps a name: upper case on Windows, where
\* the names of the variables are case-insensitive
encodekey(name_of_os, name) == IF name_of_os = "nt" THEN upper(name) ELSE name

\* the variables a host may have set, as os.environ names them, and their values
HostNames == {"HOME", "PATH", "TEMP", "WINDIR", "NUITKA_TOKEN"}
HostValues == {"a", "b"}
Unset == "unset"
HostEnvironments ==
    {[n \in {v \in HostNames : f[v] # Unset} |-> f[n]] :
        f \in [HostNames -> HostValues \cup {Unset}]}

EmptyEnv == [n \in {} |-> ""]

\* NECESSARY_ENV_VARS[os.name], or the default on KeyError
necessary(name_of_os) ==
    IF name_of_os = "nt" THEN NECESSARY_ENV_VARS_NT ELSE NECESSARY_ENV_VARS_DEFAULT

\* the loop of _get_envvars from the i-th name of copy_env on
RECURSIVE get_envvars_loop(_, _, _, _, _)
get_envvars_loop(name_of_os, host, copy_env, i, env) ==
    IF i > Len(copy_env)
    THEN env
    ELSE LET name == copy_env[i]
             key == encodekey(name_of_os, name)
         IN  get_envvars_loop(name_of_os, host, copy_env, i + 1,
                 IF key \in DOMAIN host
                 THEN [n \in DOMAIN env \cup {name} |-> IF n = name THEN host[key] ELSE env[n]]
                 ELSE env)

\* env=None: the child inherits the environment of the host
get_envvars_inherited(name_of_os, host) == host

\* _get_envvars
get_envvars(name_of_os, host) ==
    get_envvars_loop(name_of_os, host, necessary(name_of_os), 1, EmptyEnv)

\* the commands of the rework engine, by their first words
ReworkCommands == {<<"uv", "run">>, <<"hyperfine", "--show-output">>}

NoCompletedProcess == [args |-> <<>>, returncode |-> 0, spawned |-> FALSE]
CompletedProcess(args, returncode) == [args |-> args, returncode |-> returncode, spawned |-> TRUE]

IdleEnv ==
    /\ os_name = "posix"
    /\ environ = EmptyEnv
    /\ popen_env = EmptyEnv
    /\ completed = NoCompletedProcess

----------------------------------------------------------------------------
(* rework/benchmark_prepare.py: the rewriting of run_benchmark.py *)

\* nesting depth of the expressions of a script
MaxDepth == 2

\* an ast node: its class, its identifier, attribute name or constant value,
\* its single child field (value, func) as a list of at most one node, and
\* its list field (args, body)
Node(type, name, value, args) == [type |-> type, name |-> name, value |-> value, args |-> args]
Name(id) == Node("Name", id, <<>>, <<>>)
Constant(v) == Node("Constant", v, <<>>, <<>>)
Attribute(value, attr) == Node("Attribute", attr, <<value>>, <<>>)
Call(func, args) == Node("Call", "", <<func>>, args)
Expr(value) == Node("Expr", "", <<value>>, <<>>)
Module(body) == Node("Module", "", <<>>, body)

\* Path(__file__).parent and os.path.dirname(__file__), and what replaces them
FileParent == Attribute(Call(Name("Path"), <<Name("__file__")>>), "parent")
Dirname == Attribute(Attribute(Name("os"), "path"), "dirname")
DirnameOfFile == Call(Dirname, <<Name("__file__")>>)
PathCwd == Call(Attribute(Name("Path"), "cwd"), <<>>)
OsGetcwd == Call(Attribute(Name("os"), "getcwd"), <<>>)

\* mapping.get(benchmark_path.name): the str literal to replace, as a list of
\* at most one literal; "bm_2to3" has no entry
Mapped == {"bm_pyflate", "bm_bpe_tokeniser", "bm_html5lib", "bm_dulwich_log",
           "bm_tomli_loads", "bm_telco"}
mapping(benchmark) ==
    IF benchmark = "bm_pyflate" THEN <<"data/interpreter.tar.bz2">> ELSE <<>>

\* str((benchmark_path / v).resolve())
resolve(benchmark, v) ==
    CASE benchmark = "bm_pyflate" /\ v = "data/interpreter.tar.bz2"
             -> "/suite/benchmarks/bm_pyflate/data/interpreter.tar.bz2"
      [] OTHER -> v

\* the expressions of the scripts: names and constants, the two expressions
\* to replace and expressions that differ from them in one place, nested in
\* attributes (a single field) and in calls (a list)
Atoms == {Name("x"), Constant("data/interpreter.tar.bz2")}
Leaves ==
    Atoms \cup {Name("__file__"), Constant("other"), FileParent, DirnameOfFile,
                Attribute(Call(Name("Path"), <<Name("x")>>), "parent"),
                Attribute(Call(Name("Path"), <<Name("__file__")>>), "name"),
                Call(Attribute(Attribute(Name("os"), "path"), "basename"), <<Name("__file__")>>)}

RECURSIVE Exprs(_)
Exprs(d) ==
    IF d = 0
    THEN Leaves
    ELSE LET E == Exprs(d - 1)
         IN  E \cup {Attribute(e, "parent") : e \in E}
               \cup {Call(Dirname, <<e>>) : e \in E}
               \cup {Call(Name("f"), <<a, e>>) : a \in Atoms, e \in E}

\* the trees of the scripts: one or two expression statements
Trees ==
    {Module(<<Expr(e)>>) : e \in Exprs(MaxDepth)}
    \cup {Module(<<Expr(a), Expr(e)>>) : a \in {FileParent, DirnameOfFile}, e \in Exprs(MaxDepth - 1)}

\* the contents of run_benchmark.py: the tree that ast.parse gives, and
\* whether the text is the author's (comments, layout) or that of ast.unparse
Contents(module, text) == [tree |-> module, text |-> text]

\* the children of a node in the order of ast.iter_child_nodes: 0 is the
\* single field, i > 0 the i-th element of the list field
Positions(node) ==
    (IF node.value = <<>> THEN <<>> ELSE <<0>>) \o [i \in 1 .. Len(node.args) |-> i]
ChildAt(node, p) == IF p = 0 THEN node.value[1] ELSE node.args[p]
SetChild(node, p, child) ==
    IF p = 0 THEN [node EXCEPT !.value = <<child>>] ELSE [node EXCEPT !.args[p] = child]

\* replace_child that looks at the fields with a single node only
replace_child_single(parent, old_node, new_node) ==
    IF parent.value # <<>> /\ parent.value[1] = old_node
    THEN [parent EXCEPT !.value = <<new_node>>]
    ELSE parent

\* BaseReplacementVisitor.replace_child: the fields in the order of
\* ast.iter_fields, the first place that holds old_node
replace_child(parent, old_node, new_node) ==
    IF parent.value # <<>> /\ parent.value[1] = old_node
    THEN [parent EXCEPT !.value = <<new_node>>]
    ELSE IF \E i \in DOMAIN parent.args : parent.args[i] = old_node
    THEN LET idx == CHOOSE i \in DOMAIN parent.args :
                        /\ parent.args[i] = old_node
                        /\ \A j \in 1 .. i - 1 : parent.args[j] # old_node
         IN  [parent EXCEPT !.args[idx] = new_node]
    ELSE parent

\* the test of visit_Attribute
is_file_parent(node) ==
    /\ node.type = "Attribute"
    /\ node.name = "parent"
    /\ node.value[1].type = "Call"
    /\ node.value[1].value[1].type = "Name"
    /\ node.value[1].value[1].name = "Path"
    /\ Len(node.value[1].args) = 1
    /\ node.value[1].args[1].type = "Name"
    /\ node.value[1].args[1].name = "__file__"

\* the test of visit_Call
is_dirname_of_file(node) ==
    /\ node.type = "Call"
    /\ node.value[1].type = "Attribute"
    /\ node.value[1].value[1].type = "Attribute"
    /\ node.value[1].value[1].value[1].type = "Name"
    /\ node.value[1].value[1].value[1].name = "os"
    /\ node.value[1].value[1].name = "path"
    /\ node.value[1].name = "dirname"
    /\ Len(node.args) = 1
    /\ node.args[1].type = "Name"
    /\ node.args[1].name = "__file__"

\* the test of visit_Constant
is_replaced_constant(benchmark, node) ==
    /\ node.type = "Constant"
    /\ \E i \in DOMAIN mapping(benchmark) : node.name = mapping(benchmark)[i]

\* a visitor replaces the node: "ReplacementVisitor" or
\* "FileParentReplacementVisitor"
replaces(visitor, benchmark, node) ==
    IF visitor = "ReplacementVisitor"
    THEN is_replaced_constant(benchmark, node)
    ELSE is_file_parent(node) \/ is_dirname_of_file(node)

\* replacement_node / new_node
replacement_node(visitor, benchmark, node) ==
    IF visitor = "ReplacementVisitor"
    THEN Constant(resolve(benchmark, node.name))
    ELSE IF node.type = "Attribute" THEN PathCwd ELSE OsGetcwd

\* generic_visit(node) with the parent stack: each child is visited in turn;
\* a child that its visit_ method replaces is put into its parent (the node)
\* by replace_child and the visit of its own children changes the detached
\* node only, another child is changed in place by the visit of its children
RECURSIVE visit_from(_, _, _, _, _), generic_visit(_, _, _)
visit_from(visitor, benchmark, node, original, k) ==
    IF k > Len(Positions(original))
    THEN node
    ELSE LET p == Positions(original)[k]
             child == ChildAt(original, p)
         IN  visit_from(visitor, benchmark,
                 IF replaces(visitor, benchmark, child)
                 THEN replace_child(node, child, replacement_node(visitor, benchmark, child))
                 ELSE SetChild(node, p, generic_visit(visitor, benchmark, child)),
                 original, k + 1)

generic_visit(visitor, benchmark, node) == visit_from(visitor, benchmark, node, node, 1)

\* prepare_benchmark_file(benchmark_path): the contents of run_benchmark.py
\* afterwards
prepare_benchmark_file(benchmark, contents) ==
    IF benchmark \notin Mapped
    THEN contents
    ELSE Contents(generic_visit("FileParentReplacementVisitor", benchmark,
                      generic_visit("ReplacementVisitor", benchmark, contents.tree)),
                  "ast.unparse")

IdlePrepare ==
    /\ benchmark_path = ""
    /\ run_benchmark_py = Contents(Module(<<>>), "")
    /\ prepared = FALSE

----------------------------------------------------------------------------
(* engine/tvenv.py Benchmark.compile and rework/tvenv.py compile_benchmark *)

\* original_contents = None, and the empty text
NoContents == Contents(Module(<<>>), "None")
EmptyText == Contents(Module(<<>>), "ast.unparse")

\* the truth value of a str or None
truthy(contents) == contents # NoContents /\ contents # EmptyText

\* Benchmark.restore that writes nothing
restore_skipped(original, file) == file

\* Benchmark.restore: run_benchmark.py afterwards
restore(original, file) == IF truthy(original) THEN original ELSE file

\* the commands of Benchmark.compile and the build command of
\* compile_benchmark; the compiler is the last one
commands_of(module, with_requirements) ==
    IF module = "engine"
    THEN <<"uv venv", "uv pip install wheel setuptools Nuitka">>
         \o (IF with_requirements THEN <<"uv pip install -r requirements.txt">> ELSE <<>>)
         \o <<"uvx nuitka run_benchmark.py">>
    ELSE <<"uv run -- python -m nuitka run_benchmark.py">>

\* the scripts that are compiled
CompiledScripts ==
    {EmptyText,
     Contents(Module(<<>>), "author"),
     Contents(Module(<<Expr(Name("x"))>>), "author"),
     Contents(Module(<<Expr(FileParent)>>), "author"),
     Contents(Module(<<Expr(Call(Name("f"), <<Constant("data/interpreter.tar.bz2"),
                                              DirnameOfFile>>))>>), "author")}

IdleCompile ==
    /\ compiler = ""
    /\ compile_pc = ""
    /\ original_contents = NoContents
    /\ requirements_exist = FALSE
    /\ build_commands = <<>>
    /\ compile_exc = ""
    /\ contents_before = NoContents

IdleSupport == IdleEnv /\ IdleExclusion /\ IdlePrepare /\ IdleCompile

----------------------------------------------------------------------------
(* The statistics of one Benchmark object *)


IdleStats == bench = Benchmark(None, None) /\ ret = NoCall /\ stats_file = NoStatsFile

InitStats ==
    /\ bench \in BenchInputs
    /\ ret = NoCall
    /\ stats_file = NoStatsFile
    /\ IdleReport
    /\ IdleStore
    /\ IdleOrchestrator
    /\ IdleSupport

CalculateStats(which) ==
    /\ ret' = calculate_stats(bench, which)
    /\ UNCHANGED <<bench, stats_file, reportVars, storeVars, orchestratorVars, supportVars>>

FormatStats ==
    /\ ret' = format_stats(bench)
    /\ UNCHANGED <<bench, stats_file, reportVars, storeVars, orchestratorVars, supportVars>>

BenchmarkToJsonFile ==
    LET r == benchmark_to_json_file(bench, stats_file)
    IN  /\ stats_file' = r.file
        /\ ret' = Outcome("to_json_file", "", r.exc, NoRat, NoRat, NoRat, NoRat, NoRat, NoText)
        /\ UNCHANGED <<bench, reportVars, storeVars, orchestratorVars, supportVars>>

NextStats ==
    \/ \E which \in Whiches : CalculateStats(which)
    \/ FormatStats
    \/ BenchmarkToJsonFile

SpecStats == InitStats /\ [][NextStats]_vars

----------------------------------------------------------------------------
(* The engine's run and report *)

InitReport ==
    /\ results_json \in ResultFiles
    /\ report_ret = NoEngineCall
    /\ IdleStats
    /\ IdleStore
    /\ IdleOrchestrator
    /\ IdleSupport

\* Benchmark.run: hyperfine exits with 0 and has exported the two results, or
\* it exits with another code and RuntimeError is raised
Run(ok, executable, python_mean, nuitka_mean) ==
    /\ IF ok
       THEN /\ results_json' = Document(TRUE, <<[command |-> PythonCommand, mean |-> python_mean],
                                                [command |-> executable, mean |-> nuitka_mean]>>)
            /\ report_ret' = EngineOutcome("run", "", Finite(NoRat), Finite(NoRat), FALSE)
       ELSE /\ results_json' = results_json
            /\ report_ret' = EngineOutcome("run", "RuntimeError", Finite(NoRat), Finite(NoRat), FALSE)
    /\ UNCHANGED <<statsVars, storeVars, orchestratorVars, supportVars>>

Report ==
    /\ report_ret' = report(results_json)
    /\ UNCHANGED <<results_json, statsVars, storeVars, orchestratorVars, supportVars>>

NextReport ==
    \/ \E ok \in BOOLEAN, x \in Executables, p \in 0 .. MaxMean, n \in 0 .. MaxMean :
          Run(ok, x, p, n)
    \/ Report

SpecReport == InitReport /\ [][NextReport]_vars

----------------------------------------------------------------------------
(* One store and the result file of its workload *)

InitStore ==
    /\ \E d \in {Directory(FALSE, Absent), Directory(TRUE, Absent), Directory(TRUE, ZeroLength)} :
          disk = [x \in {StoreWorkload} |-> d]
    /\ store = Benchmarks(StoreWorkload, EmptyMap)
    /\ upserted = EmptyMap
    /\ saved = NoSave
    /\ op = NoOp
    /\ IdleStats
    /\ IdleReport
    /\ IdleOrchestrator
    /\ IdleSupport

\* Benchmarks(benchmarks_name=name): a new, empty store
NewBenchmarks(name) ==
    /\ store' = Benchmarks(name, EmptyMap)
    /\ upserted' = EmptyMap
    /\ op' = Op("Benchmarks", "", "", "", FALSE, TRUE)
    /\ UNCHANGED <<disk, saved, statsVars, reportVars, orchestratorVars, supportVars>>

\* Benchmarks.add_benchmark with a record of the store's workload
AddBenchmark(version, t) ==
    LET benchmark == TaggedHolder(store.benchmarks_name, version, t)
    IN  /\ store' = [store EXCEPT !.benchmarks = add_benchmark(@, benchmark)]
        /\ upserted' = [v \in DOMAIN upserted \cup {version} |->
                           IF v = version THEN benchmark ELSE upserted[v]]
        /\ op' = Op("add_benchmark", "", "", version, version \in DOMAIN store.benchmarks,
                    DOMAIN store.benchmarks = {})
        /\ UNCHANGED <<disk, saved, statsVars, reportVars, orchestratorVars, supportVars>>

\* Benchmarks.get_or_create_benchmark: setdefault with an empty record
GetOrCreateBenchmark(version) ==
    /\ store' = [store EXCEPT !.benchmarks =
                    IF version \in DOMAIN @ THEN @
                    ELSE [v \in DOMAIN @ \cup {version} |->
                             IF v = version THEN EmptyHolder(store.benchmarks_name, version)
                             ELSE @[v]]]
    /\ op' = Op("get_or_create_benchmark", "", "", version, version \in DOMAIN store.benchmarks,
                DOMAIN store.benchmarks = {})
    /\ UNCHANGED <<disk, upserted, saved, statsVars, reportVars, orchestratorVars, supportVars>>

\* Benchmarks.to_json_file on the result file of workload w: open(path, "w")
\* needs the directory
ToJsonFile(w) ==
    /\ w \in DOMAIN disk
    /\ IF disk[w].results_dir
       THEN /\ disk' = [disk EXCEPT ![w].file = Json(to_json(store.benchmarks))]
            /\ saved' = [valid |-> TRUE, path |-> w, benchmarks |-> store.benchmarks]
            /\ op' = Op("to_json_file", "", w, "", FALSE, DOMAIN store.benchmarks = {})
       ELSE /\ UNCHANGED <<disk, saved>>
            /\ op' = Op("to_json_file", "FileNotFoundError", w, "", FALSE,
                        DOMAIN store.benchmarks = {})
    /\ UNCHANGED <<store, upserted, statsVars, reportVars, orchestratorVars, supportVars>>

\* Benchmarks.from_json_file on the result file of workload w
FromJsonFile(w) ==
    /\ w \in DOMAIN disk
    /\ \E order \in KeyOrders(disk[w].file.doc) :
          LET r == from_json_file(store.benchmarks, store.benchmarks_name, disk[w].file, order)
          IN  /\ store' = [store EXCEPT !.benchmarks = r.benchmarks]
              /\ upserted' = IF r.exc = ""
                             THEN [v \in DOMAIN upserted \cup DOMAIN disk[w].file.doc |->
                                      IF v \in DOMAIN disk[w].file.doc
                                      THEN from_dict(disk[w].file.doc[v], store.benchmarks_name, v)
                                      ELSE upserted[v]]
                             ELSE upserted
              /\ op' = Op("from_json_file", r.exc, w, "", FALSE, DOMAIN store.benchmarks = {})
    /\ UNCHANGED <<disk, saved, statsVars, reportVars, orchestratorVars, supportVars>>

NextStore ==
    \/ \E name \in {StoreWorkload, "Visualizer"} : NewBenchmarks(name)
    \/ \E v \in Versions, t \in 1 .. MaxTag : AddBenchmark(v, t)
    \/ \E v \in Versions : GetOrCreateBenchmark(v)
    \/ \E w \in DOMAIN disk : ToJsonFile(w)
    \/ \E w \in DOMAIN disk : FromJsonFile(w)

SpecStore == InitStore /\ [][NextStore]_vars

----------------------------------------------------------------------------
(* get_visualizer_setup over the result files of all workloads *)

\* the records a store of one workload may hold when it is saved
StoreContents ==
    UNION {[vs -> 1 .. MaxTag] : vs \in SUBSET Versions}

\* the document that to_json_file writes for the records tagged by tags
DocumentOf(tags) == to_json([v \in DOMAIN tags |-> TaggedHolder("", v, tags[v])])

DirectoryStates ==
    {Directory(FALSE, Absent), Directory(TRUE, Absent), Directory(TRUE, ZeroLength)}
    \cup {Directory(TRUE, Json(DocumentOf(tags))) : tags \in StoreContents}

\* the orders in which iterdir may yield the workload directories
IterdirOrders ==
    {o \in [1 .. Cardinality(Workloads) -> Workloads] :
        \A i, j \in DOMAIN o : i # j => o[i] # o[j]}

\* the loop of get_visualizer_setup from position i of the iteration on: the
\* exception ("" for none) and the records of the store
RECURSIVE visualizer_loop(_, _, _, _, _)
visualizer_loop(benchmarks, files, order, keys, i) ==
    IF i > Len(order)
    THEN [exc |-> "", benchmarks |-> benchmarks]
    ELSE LET benchmark == files[order[i]]
         IN  IF ~benchmark.results_dir
             THEN visualizer_loop(benchmarks, files, order, keys, i + 1)
             ELSE IF benchmark.file.kind = "absent"
             THEN \* file.stat() of a missing file
                  [exc |-> "FileNotFoundError", benchmarks |-> benchmarks]
             ELSE IF benchmark.file.kind = "empty"
             THEN visualizer_loop(benchmarks, files, order, keys, i + 1)
             ELSE LET r == from_json_file(benchmarks, "Visualizer", benchmark.file,
                                          keys[order[i]])
                  IN  IF r.exc # "" THEN r
                      ELSE visualizer_loop(r.benchmarks, files, order, keys, i + 1)

\* get_visualizer_setup
get_visualizer_setup(files, order, keys) == visualizer_loop(EmptyMap, files, order, keys, 1)

InitVisualizer ==
    /\ disk \in [Workloads -> DirectoryStates]
    /\ store = Benchmarks("", EmptyMap)
    /\ upserted = EmptyMap
    /\ saved = NoSave
    /\ op = NoOp
    /\ IdleStats
    /\ IdleReport
    /\ IdleOrchestrator
    /\ IdleSupport

\* the workloads whose file get_visualizer_setup hands to from_json_file
Loaded(files) == {w \in DOMAIN files : files[w].results_dir /\ files[w].file.kind = "json"}

GetVisualizerSetup ==
    \E order \in IterdirOrders :
    \E keys \in {f \in [Workloads -> UNION {KeyOrders(disk[w].file.doc) : w \in Workloads}] :
                    \A w \in Workloads : f[w] \in KeyOrders(disk[w].file.doc)} :
        LET r == get_visualizer_setup(disk, order, keys)
            last(v) == CHOOSE i \in DOMAIN order :
                          /\ order[i] \in Loaded(disk) /\ v \in DOMAIN disk[order[i]].file.doc
                          /\ \A j \in DOMAIN order :
                                (order[j] \in Loaded(disk) /\ v \in DOMAIN disk[order[j]].file.doc)
                                => j <= i
        IN  /\ op' = Op("get_visualizer_setup", r.exc, "", "", FALSE, TRUE)
            /\ IF r.exc = ""
               THEN /\ store' = Benchmarks("Visualizer", r.benchmarks)
                    /\ upserted' =
                          [v \in UNION {DOMAIN disk[w].file.doc : w \in Loaded(disk)} |->
                              from_dict(disk[order[last(v)]].file.doc[v], "Visualizer", v)]
               ELSE UNCHANGED <<store, upserted>>
            /\ UNCHANGED <<disk, saved, statsVars, reportVars, orchestratorVars, supportVars>>

NextVisualizer == GetVisualizerSetup

SpecVisualizer == InitVisualizer /\ [][NextVisualizer]_vars

----------------------------------------------------------------------------
(* The readers that require their file: Benchmark.from_path and the engine's
   Benchmark.report *)

InitRequired ==
    /\ \E f \in {Absent, ZeroLength} \cup {Json(d) : d \in StatsDocuments} :
          disk = [x \in {StoreWorkload} |-> Directory(TRUE, f)]
    /\ results_json \in {NoFile, Document(FALSE, <<>>), Document(TRUE, <<>>)}
    /\ report_ret = NoEngineCall
    /\ store = Benchmarks("", EmptyMap)
    /\ upserted = EmptyMap
    /\ saved = NoSave
    /\ op = NoOp
    /\ IdleStats
    /\ IdleOrchestrator
    /\ IdleSupport

\* Benchmark.from_path(file_path, benchmark_name) on the result file of w
FromPath(w, stem) ==
    LET r == from_path(disk[w].file, stem)
    IN  /\ op' = Op("from_path", r.exc, w, "", FALSE, FALSE)
        /\ bench' = r.benchmark
        /\ UNCHANGED <<ret, stats_file, store, disk, upserted, saved, reportVars, orchestratorVars, supportVars>>

NextRequired ==
    \/ \E w \in DOMAIN disk, stem \in Stems : FromPath(w, stem)
    \/ \E ok \in BOOLEAN, x \in Executables, p \in 0 .. MaxMean, n \in 0 .. MaxMean :
          Run(ok, x, p, n)
    \/ Report

SpecRequired == InitRequired /\ [][NextRequired]_vars

----------------------------------------------------------------------------
(* One run_benchmark frame after the other *)

InitRun ==
    /\ frame = NoRunCall
    /\ bench_time \in {NoBenchTime, StaleBenchTime}
    /\ invocations = <<>>
    /\ IdleMain
    /\ IdleStats
    /\ IdleReport
    /\ IdleStore
    /\ IdleSupport

Types == {"Nuitka", "CPython"}

\* run_benchmark(benchmark, python_executable, iterations, ..., type, ...)
CallRunBenchmark(fn, type, iterations) ==
    /\ frame.phase \in {"", "returned", "raised"}
    /\ frame' = enter_run_benchmark(fn, type, iterations)
    /\ invocations' = <<>>
    /\ UNCHANGED <<bench_time, statsVars, reportVars, storeVars, supportVars, mainVars>>

\* res = run(run_command[type]) and the rest of the iteration
Iteration(res) ==
    /\ frame.phase \in {"warmup", "benchmark"}
    /\ frame' = run_iteration(frame, bench_time, res)
    /\ bench_time' = written(bench_time, res)
    /\ invocations' = Append(invocations, Invocation(frame, bench_time, res))

Invoke(res) ==
    /\ Iteration(res)
    /\ UNCHANGED <<statsVars, reportVars, storeVars, supportVars, mainVars>>

NextRun ==
    \/ \E fn \in {"Utilities", "benchengine"}, type \in Types, n \in 0 .. ITERATIONS :
          CallRunBenchmark(fn, type, n)
    \/ \E res \in TimedProcesses : frame.fn = "Utilities" /\ Invoke(res)
    \/ \E res \in ReportingProcesses : frame.fn = "benchengine" /\ Invoke(res)

SpecRun == InitRun /\ [][NextRun]_vars

----------------------------------------------------------------------------
(* main.py: the loop over the versions and the workloads *)

Pairs == Workloads \X Versions

\* a document that an earlier run of the day has written
EarlierResults == [nuitka |-> Series(<<1, 1>>, <<1, 1>>), cpython |-> Series(<<1, 1>>, <<1, 1>>)]

InitMain ==
    /\ pc = "versions"
    /\ versions = LauncherVersions
    /\ py_version = ""
    /\ todo = <<>>
    /\ entry = ""
    /\ cwd = "."
    /\ current_directory = "."
    /\ tree \in [Workloads -> {WorkloadDir(TRUE, TRUE, {}, FALSE),
                                WorkloadDir(TRUE, FALSE, {}, FALSE),
                                WorkloadDir(FALSE, FALSE, {}, FALSE)}]
    /\ \E written_ \in {{}} \cup {{p} : p \in Pairs} :
          results_file = [p \in Pairs |-> IF p \in written_ THEN Json(EarlierResults) ELSE Absent]
    /\ bench_results = EmptyResults
    /\ commands = <<>>
    /\ after = ""
    /\ ran = <<>>
    /\ attempted = {}
    /\ causes = {}
    /\ IdleRun
    /\ IdleStats
    /\ IdleReport
    /\ IdleStore
    /\ IdleSupport

\* for python_version in versions: ... BENCHMARK_DIRECTORY.iterdir()
TakeVersion ==
    /\ pc = "versions"
    /\ IF versions = <<>>
       THEN /\ pc' = "done"
            /\ UNCHANGED <<versions, py_version, todo>>
       ELSE /\ py_version' = Head(versions)
            /\ versions' = Tail(versions)
            /\ todo' \in Listings
            /\ pc' = "workloads"
    /\ UNCHANGED <<entry, cwd, current_directory, tree, results_file, bench_results, commands, after, ran,
                   attempted, causes, runVars, statsVars, reportVars, storeVars, supportVars>>

\* for benchmark in ...: the filters, the results directory, the test for
\* results that exist, results_file.touch()
TakeEntry ==
    /\ pc = "workloads"
    /\ IF todo = <<>>
       THEN /\ pc' = "versions"
            /\ UNCHANGED <<todo, entry, results_file, bench_results, ran, attempted,
                           invocations>>
       ELSE LET e == Head(todo)
                file == results_file[<<e, py_version>>]
            IN  /\ todo' = Tail(todo)
                /\ entry' = e
                /\ IF ~(is_dir(e) /\ startswith_bm(e))
                   THEN /\ pc' = "workloads"
                        /\ UNCHANGED <<results_file, bench_results, ran, attempted,
                                       invocations>>
                   ELSE /\ attempted' = attempted \cup {<<py_version, e>>}
                        /\ bench_results' = EmptyResults
                        /\ ran' = <<>>
                        /\ invocations' = <<>>
                        /\ IF file.kind \notin {"absent", "empty"}
                           THEN /\ pc' = "workloads"
                                /\ UNCHANGED results_file
                           ELSE /\ results_file' =
                                      [results_file EXCEPT ![<<e, py_version>>] = ZeroLength]
                                /\ pc' = "enter"
    /\ UNCHANGED <<versions, py_version, cwd, current_directory, tree, commands, after, causes, frame,
                   bench_time, statsVars, reportVars, storeVars, supportVars>>

\* with temporary_directory_change(benchmark): and the test for run_benchmark.py
EnterDirectory ==
    /\ pc = "enter"
    /\ current_directory' = cwd
    /\ IF ~has_run_benchmark(tree[entry])
       THEN /\ cwd' = temporary_directory_change(cwd, entry, "continue")
            /\ pc' = "workloads"
       ELSE /\ cwd' = entry
            /\ pc' = "venv"
    /\ UNCHANGED <<versions, py_version, todo, entry, tree, results_file, bench_results,
                   commands, after, ran, attempted, causes, runVars, statsVars, reportVars,
                   storeVars, supportVars>>

\* python_executable = create_venv_with_version(python_version), outside the
\* try statement: an exception ends the script
CreateVenv(outcome) ==
    /\ pc = "venv"
    /\ ran' = Append(ran, Ran("venv", IF outcome = "RuntimeError" THEN 1 ELSE 0))
    /\ IF outcome = ""
       THEN /\ tree' = [tree EXCEPT ![entry].venv = @ \cup {py_version}]
            /\ commands' = provisioning(tree[entry].requirements)
            /\ pc' = "commands"
            /\ UNCHANGED cwd
       ELSE /\ pc' = "crashed"
            /\ cwd' = temporary_directory_change(current_directory, cwd, "raise")
            /\ UNCHANGED <<tree, commands>>
    /\ UNCHANGED <<versions, py_version, todo, entry, current_directory, results_file, bench_results,
                   after, attempted, causes, runVars, statsVars, reportVars, storeVars, supportVars>>

\* res = run(command, ...) in the loop over commands; a non-zero code leaves
\* the loop, and run_benchmark(..., "Nuitka", ...) is called after the loop
RunCommand(returncode) ==
    /\ pc = "commands"
    /\ commands # <<>>
    /\ ran' = Append(ran, Ran(Head(commands), returncode))
    /\ IF returncode # 0
       THEN /\ commands' = <<>>
            /\ causes' = causes \cup {"provisioning"}
            /\ UNCHANGED tree
       ELSE /\ commands' = Tail(commands)
            /\ tree' = IF Head(commands) = "nuitka --standalone"
                       THEN [tree EXCEPT ![entry].dist = TRUE]
                       ELSE tree
            /\ UNCHANGED causes
    /\ IF commands' = <<>>
       THEN /\ pc' = "nuitka"
            /\ frame' = enter_run_benchmark("Utilities", "Nuitka", ITERATIONS)
       ELSE /\ pc' = "commands"
            /\ UNCHANGED frame
    /\ UNCHANGED <<versions, py_version, todo, entry, cwd, current_directory, results_file, bench_results,
                   after, attempted, bench_time, invocations, statsVars, reportVars,
                   storeVars, supportVars>>

\* an iteration of run_benchmark in main.py
Repetition(res) ==
    /\ pc \in {"nuitka", "cpython"}
    /\ pc = "nuitka" => tree[entry].dist
    /\ Iteration(res)
    /\ UNCHANGED <<mainVars, statsVars, reportVars, storeVars, supportVars>>

\* run() of run_benchmark.dist/run_benchmark.exe when there is no such file
MissingExecutable ==
    /\ pc = "nuitka"
    /\ ~tree[entry].dist
    /\ frame.phase \in {"warmup", "benchmark"}
    /\ frame' = raised(frame, "FileNotFoundError")
    /\ UNCHANGED <<bench_time, invocations, mainVars, statsVars, reportVars, storeVars, supportVars>>

\* bench_results["nuitka"] = run_benchmark(...) / bench_results["cpython"] = ...
Assign ==
    /\ pc \in {"nuitka", "cpython"}
    /\ frame.phase = "returned"
    /\ IF pc = "nuitka"
       THEN /\ bench_results' = [bench_results EXCEPT
                                    !.nuitka = Series(frame.warmup, frame.benchmark)]
            /\ frame' = enter_run_benchmark("Utilities", "CPython", ITERATIONS)
            /\ pc' = "cpython"
       ELSE /\ bench_results' = [bench_results EXCEPT
                                    !.cpython = Series(frame.warmup, frame.benchmark)]
            /\ frame' = frame
            /\ pc' = "write"
    /\ UNCHANGED <<versions, py_version, todo, entry, cwd, current_directory, tree, results_file, commands,
                   after, ran, attempted, causes, bench_time, invocations, statsVars,
                   reportVars, storeVars, supportVars>>

\* except Exception as e: for the exception that run_benchmark has raised
Except ==
    /\ pc \in {"nuitka", "cpython"}
    /\ frame.phase = "raised"
    /\ pc' = "finally"
    /\ after' = "break"
    /\ causes' = causes \cup {IF frame.exc = "RuntimeError" THEN "exit" ELSE "missing"}
    /\ UNCHANGED <<versions, py_version, todo, entry, cwd, current_directory, tree, results_file,
                   bench_results, commands, ran, attempted, runVars, statsVars, reportVars,
                   storeVars, supportVars>>

\* with open(results_file, "w") as f:
OpenResults ==
    /\ pc = "write"
    /\ results_file' = [results_file EXCEPT ![<<entry, py_version>>] = ZeroLength]
    /\ pc' = "dump"
    /\ UNCHANGED <<versions, py_version, todo, entry, cwd, current_directory, tree, bench_results, commands,
                   after, ran, attempted, causes, runVars, statsVars, reportVars, storeVars, supportVars>>

\* json.dump(bench_results, f): fp.write(chunk) for each chunk of the
\* document, and the end of the with statement after the last one
Dump ==
    /\ pc = "dump"
    /\ IF results_file[<<entry, py_version>>].kind = "empty"
       THEN /\ results_file' = [results_file EXCEPT ![<<entry, py_version>>] = Partial]
            /\ pc' = "dump"
       ELSE /\ results_file' =
                  [results_file EXCEPT ![<<entry, py_version>>] = Json(bench_results)]
            /\ pc' = "stats"
    /\ UNCHANGED <<versions, py_version, todo, entry, cwd, current_directory, tree, bench_results, commands,
                   after, ran, attempted, causes, runVars, statsVars, reportVars, storeVars, supportVars>>

\* print(calculate_stats(bench_results["nuitka"])): the end of the try block,
\* or an exception of calculate_stats
PrintStats(exc) ==
    /\ pc = "stats"
    /\ pc' = "finally"
    /\ IF exc = ""
       THEN after' = "next" /\ UNCHANGED causes
       ELSE after' = "break" /\ causes' = causes \cup {"stats"}
    /\ UNCHANGED <<versions, py_version, todo, entry, cwd, current_directory, tree, results_file,
                   bench_results, commands, ran, attempted, runVars, statsVars, reportVars,
                   storeVars, supportVars>>

\* finally: shutil.rmtree(venv_path); dist_path is relative to the directory
\* above benchmarks/ and is looked up from the workload directory, where it
\* does not exist.  Then the with statement ends and the loop goes on or is
\* left; the locals of the iteration are dead and the histories start anew
Finally ==
    /\ pc = "finally"
    /\ tree' = [tree EXCEPT ![entry].venv = @ \ {py_version}]
    /\ cwd' = temporary_directory_change(current_directory, entry, after)
    /\ after' = ""
    /\ IF after = "break"
       THEN pc' = "versions" /\ todo' = <<>>
       ELSE pc' = "workloads" /\ todo' = todo
    /\ frame' = NoRunCall
    /\ bench_results' = EmptyResults
    /\ commands' = <<>>
    /\ ran' = <<>>
    /\ invocations' = <<>>
    /\ UNCHANGED <<versions, py_version, entry, current_directory, results_file,
                   attempted, causes, bench_time, statsVars, reportVars, storeVars, supportVars>>

\* KeyboardInterrupt: inside the try statement the handler runs, elsewhere the
\* exception ends the script
Interrupt ==
    /\ pc \notin {"done", "crashed"}
    /\ causes' = causes \cup {"interrupt"}
    /\ IF pc \in InTry
       THEN /\ pc' = "finally"
            /\ after' = "break"
            /\ frame' = IF pc \in {"nuitka", "cpython"} /\ frame.phase \in {"warmup", "benchmark"}
                        THEN raised(frame, "KeyboardInterrupt")
                        ELSE frame
       ELSE /\ pc' = "crashed"
            /\ UNCHANGED <<after, frame>>
    /\ cwd' = IF pc \in InBlock \ InTry
              THEN temporary_directory_change(current_directory, cwd, "raise")
              ELSE cwd
    /\ UNCHANGED <<versions, py_version, todo, entry, current_directory, tree, results_file,
                   bench_results, commands, ran, attempted, bench_time, invocations,
                   statsVars, reportVars, storeVars, supportVars>>

NextMain ==
    \/ TakeVersion
    \/ TakeEntry
    \/ EnterDirectory
    \/ \E outcome \in {"", "RuntimeError", "FileNotFoundError"} : CreateVenv(outcome)
    \/ \E returncode \in {0, 1} : RunCommand(returncode)
    \/ \E res \in MainProcesses : Repetition(res)
    \/ MissingExecutable
    \/ Assign
    \/ Except
    \/ OpenResults
    \/ Dump
    \/ \E exc \in {"", "Exception"} : PrintStats(exc)
    \/ Finally
    \/ Interrupt

SpecMain == InitMain /\ [][NextMain]_vars

----------------------------------------------------------------------------
(* rework: run_command_in_subprocess *)

InitEnv ==
    /\ os_name \in OsNames
    /\ environ \in HostEnvironments
    /\ popen_env = EmptyEnv
    /\ completed = NoCompletedProcess
    /\ IdleExclusion
    /\ IdlePrepare
    /\ IdleCompile
    /\ IdleStats
    /\ IdleReport
    /\ IdleStore
    /\ IdleOrchestrator

\* run_command_in_subprocess(command), the child ending with returncode
RunCommandInSubprocess(command, returncode) ==
    /\ popen_env' = get_envvars(os_name, environ)
    /\ completed' = CompletedProcess(command, returncode)
    /\ UNCHANGED <<os_name, environ, exclusionVars, prepareVars, compileVars, statsVars, reportVars,
                   storeVars, orchestratorVars>>

NextEnv ==
    \E command \in ReworkCommands, returncode \in {0, 1} :
        RunCommandInSubprocess(command, returncode)

SpecEnv == InitEnv /\ [][NextEnv]_vars

----------------------------------------------------------------------------
(* benchengine: check_if_excluded *)

InitExcluded ==
    /\ CURRENT_PLATFORM \in Platforms
    /\ PYTHON_VERSION \in PythonVersions
    /\ excluded = NotChecked
    /\ IdleEnv
    /\ IdlePrepare
    /\ IdleCompile
    /\ IdleStats
    /\ IdleReport
    /\ IdleStore
    /\ IdleOrchestrator

CheckIfExcluded(name) ==
    /\ excluded' = Checked(name, check_if_excluded(CURRENT_PLATFORM, PYTHON_VERSION, name))
    /\ UNCHANGED <<CURRENT_PLATFORM, PYTHON_VERSION, envVars, prepareVars, compileVars, statsVars,
                   reportVars, storeVars, orchestratorVars>>

NextExcluded == \E name \in BenchmarkNames : CheckIfExcluded(name)

SpecExcluded == InitExcluded /\ [][NextExcluded]_vars

----------------------------------------------------------------------------
(* rework: prepare_benchmark_file *)

InitPrepare ==
    /\ benchmark_path \in {"bm_pyflate", "bm_dulwich_log", "bm_2to3"}
    /\ run_benchmark_py \in {Contents(t, "author") : t \in Trees}
    /\ prepared = FALSE
    /\ IdleEnv
    /\ IdleExclusion
    /\ IdleCompile
    /\ IdleStats
    /\ IdleReport
    /\ IdleStore
    /\ IdleOrchestrator

PrepareBenchmarkFile ==
    /\ ~prepared
    /\ run_benchmark_py' = prepare_benchmark_file(benchmark_path, run_benchmark_py)
    /\ prepared' = TRUE
    /\ UNCHANGED <<benchmark_path, envVars, exclusionVars, compileVars, statsVars, reportVars, storeVars,
                   orchestratorVars>>

NextPrepare == PrepareBenchmarkFile

SpecPrepare == InitPrepare /\ [][NextPrepare]_vars

----------------------------------------------------------------------------
(* The two compile functions *)

InitCompile ==
    /\ compiler \in {"engine", "rework"}
    /\ compile_pc = "start"
    /\ benchmark_path \in {"bm_pyflate", "bm_dulwich_log", "bm_2to3"}
    /\ run_benchmark_py \in CompiledScripts
    /\ prepared = FALSE
    /\ original_contents = NoContents
    /\ requirements_exist \in BOOLEAN
    /\ build_commands = <<>>
    /\ compile_exc = ""
    /\ contents_before = run_benchmark_py
    /\ IdleEnv
    /\ IdleExclusion
    /\ IdleStats
    /\ IdleReport
    /\ IdleStore
    /\ IdleOrchestrator

\* the variables of main.py other than the working directory
mainRest == <<pc, versions, py_version, todo, entry, tree, results_file, bench_results,
              commands, after, ran, attempted, causes>>

\* how an exception leaves the with block: by the finally clause of
\* Benchmark.compile, or straight out of compile_benchmark
Raise(exc) ==
    /\ compile_exc' = exc
    /\ compile_pc' = IF compiler = "engine" THEN "finally" ELSE "raised"
    /\ cwd' = temporary_directory_change(current_directory', benchmark_path, "raise")

\* original_contents = run_benchmark_path.read_text();
\* prepare_benchmark_file(benchmark_path), which may fail in ast.parse;
\* with temporary_directory_change(benchmark_path):
Prepare(exc) ==
    /\ compile_pc = "start"
    /\ original_contents' = run_benchmark_py
    /\ IF exc # "" /\ benchmark_path \in Mapped
       THEN /\ compile_exc' = exc
            /\ compile_pc' = "raised"
            /\ UNCHANGED <<run_benchmark_py, prepared, build_commands, cwd, current_directory>>
       ELSE /\ run_benchmark_py' = prepare_benchmark_file(benchmark_path, run_benchmark_py)
            /\ prepared' = TRUE
            /\ build_commands' = commands_of(compiler, requirements_exist)
            /\ current_directory' = cwd
            /\ cwd' = benchmark_path
            /\ compile_pc' = "commands"
            /\ UNCHANGED compile_exc
    /\ UNCHANGED <<compiler, benchmark_path, requirements_exist, contents_before, envVars,
                   exclusionVars, statsVars, reportVars, storeVars, runVars, mainRest>>

\* run_command_in_subprocess of the next command: Popen fails, or the child
\* ends with returncode; only the code of the compiler is looked at
Build(returncode, popen_fails) ==
    /\ compile_pc = "commands"
    /\ build_commands # <<>>
    /\ build_commands' = Tail(build_commands)
    /\ IF popen_fails
       THEN /\ Raise("FileNotFoundError")
            /\ UNCHANGED <<popen_env, completed>>
       ELSE /\ popen_env' = get_envvars(os_name, environ)
            /\ completed' = CompletedProcess(<<Head(build_commands)>>, returncode)
            /\ IF Len(build_commands) > 1
               THEN UNCHANGED <<compile_pc, compile_exc, cwd>>
               ELSE IF returncode # 0
               THEN Raise("RuntimeError")
               ELSE /\ compile_pc' = IF compiler = "engine" THEN "finally" ELSE "restore"
                    /\ cwd' = temporary_directory_change(current_directory, benchmark_path, "")
                    /\ UNCHANGED compile_exc
    /\ UNCHANGED <<compiler, benchmark_path, run_benchmark_py, prepared, original_contents,
                   requirements_exist, contents_before, os_name, environ, current_directory,
                   exclusionVars, statsVars, reportVars, storeVars, runVars, mainRest>>

\* finally: self.restore() in Benchmark.compile; f.write(original_contents)
\* after the with block of compile_benchmark
Restore ==
    /\ compile_pc \in {"finally", "restore"}
    /\ run_benchmark_py' = IF compiler = "engine"
                           THEN restore(original_contents, run_benchmark_py)
                           ELSE original_contents
    /\ compile_pc' = IF compile_exc = "" THEN "returned" ELSE "raised"
    /\ UNCHANGED <<compiler, benchmark_path, prepared, original_contents, requirements_exist,
                   build_commands, compile_exc, contents_before, envVars, exclusionVars,
                   statsVars, reportVars, storeVars, orchestratorVars>>

NextCompile ==
    \/ \E exc \in {"", "SyntaxError"} : Prepare(exc)
    \/ \E returncode \in {0, 1}, popen_fails \in BOOLEAN : Build(returncode, popen_fails)
    \/ Restore

SpecCompile == InitCompile /\ [][NextCompile]_vars

----------------------------------------------------------------------------
(* Claims on the statistics *)

\* the Stats that the last calculate_stats call read
UsedStats == IF lower(ret.which) = "nuitka" THEN bench.nuitka_stats ELSE bench.cpython_stats

Returned == ret.op = "calculate_stats" /\ ret.exc = ""

\* the mean of S with S[0] left out exactly when no sample is below it
TrimmedMean(S) ==
    IF \A i \in DOMAIN S : S[1] <= S[i]
    THEN [num |-> Sum(S) - S[1], den |-> Len(S) - 1]
    ELSE [num |-> Sum(S), den |-> Len(S)]

\* p and q are the same number (q need not be in lowest terms)
SameNumber(p, q) == p.den # 0 /\ q.den # 0 /\ p.num * q.den = q.num * p.den

InMinMean(S, r) == Min(S) * r.den <= r.num /\ r.num * Len(S) <= Sum(S) * r.den

\* C1 (as claimed): the mean that calculate_stats derives from a non-empty
\* series S alone lies in [min(S), mean(S)].
C1_AsClaimed ==
    Returned => /\ InMinMean(UsedStats.warmup, ret.warmup)
                /\ InMinMean(UsedStats.benchmark, ret.benchmark)

\* C2: a series of at least two samples is averaged over S[1:] exactly when
\* min(S) == S[0] and over all of S otherwise; [5,10,10,10] gives 10 and
\* [50,10,10,10] gives 20.
C2_SkewTrimming ==
    Returned =>
        /\ Len(UsedStats.warmup) >= 2
              => SameNumber(ret.warmup, TrimmedMean(UsedStats.warmup))
        /\ Len(UsedStats.benchmark) >= 2
              => SameNumber(ret.benchmark, TrimmedMean(UsedStats.benchmark))
        /\ UsedStats.warmup = Skewed5 => ret.warmup = RatOfInt(10)
        /\ UsedStats.warmup = Unskewed50 => ret.warmup = RatOfInt(20)
        /\ UsedStats.benchmark = Skewed5 => ret.benchmark = RatOfInt(10)
        /\ UsedStats.benchmark = Unskewed50 => ret.benchmark = RatOfInt(20)

C2_Witness ==
    /\ Returned
    /\ UsedStats = Stats(Skewed5, Unskewed50)
    /\ ret.warmup = RatOfInt(10)
    /\ ret.benchmark = RatOfInt(20)

\* C3 (as claimed): calculate_stats yields a value for every mode whose two
\* series each hold at least one sample; a series of one sample x contributes x.
C3_AsClaimed ==
    (/\ ret.op = "calculate_stats"
     /\ lower(ret.which) \in {"nuitka", "cpython"}
     /\ ~bench.nuitka_stats.is_none
     /\ ~bench.cpython_stats.is_none
     /\ Len(UsedStats.warmup) >= 1
     /\ Len(UsedStats.benchmark) >= 1)
    => /\ ret.exc = ""
       /\ Len(UsedStats.warmup) = 1 => ret.warmup = RatOfInt(UsedStats.warmup[1])
       /\ Len(UsedStats.benchmark) = 1 => ret.benchmark = RatOfInt(UsedStats.benchmark[1])

\* C4: the value of a mode is the smaller of the trimmed means of its warm-up
\* and of its benchmark series; the end-to-end example gives 8 for the compiled
\* mode, 14 for the interpreted mode and the display +42.86%.
C4_SmallerMean ==
    /\ Returned =>
          /\ ret.value \in {ret.warmup, ret.benchmark}
          /\ RatLe(ret.value, ret.warmup) /\ RatLe(ret.value, ret.benchmark)
          /\ Len(UsedStats.warmup) >= 2 => SameNumber(ret.warmup, TrimmedMean(UsedStats.warmup))
          /\ Len(UsedStats.benchmark) >= 2 => SameNumber(ret.benchmark, TrimmedMean(UsedStats.benchmark))
          /\ (bench = EndToEnd /\ ret.which = "nuitka") => ret.value = RatOfInt(8)
          /\ (bench = EndToEnd /\ ret.which = "cpython") => ret.value = RatOfInt(14)
    /\ (ret.op = "format_stats" /\ bench = EndToEnd)
          => ret.text = [sign |-> "+", hundredths |-> 4286, style |-> "green"]

C4_Witness ==
    /\ Returned
    /\ bench = EndToEnd
    /\ ret.which = "nuitka"
    /\ ret.value = RatOfInt(8)
    /\ RatLt(ret.benchmark, ret.warmup)

\* format_stats got a value from both calculate_stats calls
Compared == ret.op = "format_stats" /\ ret.nuitka.den # 0 /\ ret.cpython.den # 0

\* h hundredths is (a - b) / base * 100 rounded to two decimals
IsPercentOf(h, a, b, base) ==
    LET P == 10000 * (a.num * b.den - b.num * a.den) * base.den
        D == a.den * b.den * base.num
    IN  2 * Abs(h * D - P) <= D

\* C5: for I > 0 the figure is +(I-C)/I*100 when C < I, -(C-I)/I*100 when
\* C > I and 0% when C == I; (C=8, I=10) gives +20% and (C=10, I=8) gives -25%.
C5_Comparison ==
    (Compared /\ ret.cpython.num > 0) =>
        LET C == ret.nuitka
            I == ret.cpython
            t == ret.text
        IN  /\ ret.exc = ""
            /\ RatLt(C, I) => t.sign = "+" /\ IsPercentOf(t.hundredths, I, C, I)
            /\ RatLt(I, C) => t.sign = "-" /\ IsPercentOf(t.hundredths, C, I, I)
            /\ C = I => t.sign = "" /\ t.hundredths = 0
            /\ (C = RatOfInt(8) /\ I = RatOfInt(10)) => t.sign = "+" /\ t.hundredths = 2000
            /\ (C = RatOfInt(10) /\ I = RatOfInt(8)) => t.sign = "-" /\ t.hundredths = 2500

C5_Witness ==
    /\ Compared
    /\ bench = Slower10v8
    /\ ret.text = [sign |-> "-", hundredths |-> 2500, style |-> "red"]

\* C6: when the interpreted value I is 0, format_stats ends in an error for
\* every compiled value C, C == 0 included, and returns no comparison.
C6_ZeroInterpreted ==
    (Compared /\ ret.cpython.num = 0) => ret.exc = "ZeroDivisionError" /\ ret.text = NoText

C6_Witness ==
    /\ Compared
    /\ ret.cpython.num = 0
    /\ ret.nuitka.num = 0
    /\ ret.exc = "ZeroDivisionError"

----------------------------------------------------------------------------
(* Claims on the engine's report *)

\* C7 (as claimed): the comparison values of a summary that report returns are
\* finite; a zero interpreted or compiled mean ends in an error instead.
C7_AsClaimed ==
    (report_ret.call = "report" /\ report_ret.kind = "summary")
    => ~report_ret.speedup_ratio.inf /\ ~report_ret.percent_change.inf

----------------------------------------------------------------------------
(* Claims on the store *)

\* for every key that add_benchmark was given, the store holds the last record
\* given under it
LastUpsertHeld ==
    \A v \in DOMAIN upserted :
        v \in DOMAIN store.benchmarks /\ store.benchmarks[v] = upserted[v]

\* C8: add_benchmark replaces the whole record under the record's key (the
\* python_version, in the store of one workload), adds the record when the key
\* is new and leaves the records under the other keys unchanged; after any
\* sequence of upserts the store holds, per key, the last record upserted.
C8_Upsert ==
    [][/\ LastUpsertHeld'
       /\ op'.name = "add_benchmark" =>
             /\ DOMAIN store'.benchmarks = DOMAIN store.benchmarks \cup {op'.key}
             /\ store'.benchmarks[op'.key] = upserted'[op'.key]
             /\ \A v \in DOMAIN store.benchmarks \ {op'.key} :
                   store'.benchmarks[v] = store.benchmarks[v]]_vars

C8_Witness ==
    /\ op.name = "add_benchmark"
    /\ op.existed
    /\ DOMAIN store.benchmarks = Versions
    /\ store.benchmarks[op.key] = upserted[op.key]
    /\ \E v \in Versions : store.benchmarks[v] # TaggedHolder(store.benchmarks_name, v, 1)

SameSamples(g, h) ==
    /\ g.CPython_benchmark = h.CPython_benchmark
    /\ g.Nuitka_benchmark = h.Nuitka_benchmark

\* C10 (as claimed): to_json_file followed by from_json_file into an empty
\* store yields the saved records, the compiled and the interpreted series of
\* both channels unchanged.
C10_AsClaimed ==
    (/\ op.name = "from_json_file"
     /\ op.exc = ""
     /\ op.was_empty
     /\ saved.valid
     /\ saved.path = op.path)
    => /\ DOMAIN store.benchmarks = DOMAIN saved.benchmarks
       /\ \A v \in DOMAIN saved.benchmarks :
             /\ store.benchmarks[v].python_version = saved.benchmarks[v].python_version
             /\ SameSamples(store.benchmarks[v], saved.benchmarks[v])

\* C11 (as claimed): from_json_file on a zero-byte file adds no record to the
\* store and raises no error.
C11_AsClaimed ==
    (/\ op.name = "from_json_file"
     /\ op.path \in DOMAIN disk
     /\ disk[op.path].file.kind = "empty")
    => op.exc = ""

\* the (workload name, interpreter version) pairs in the files that were loaded
LoadedPairs ==
    {p \in Workloads \X Versions : p[1] \in Loaded(disk) /\ p[2] \in DOMAIN disk[p[1]].file.doc}

\* C9 (as claimed): after get_visualizer_setup the store holds a separate
\* record for each (workload name, interpreter version) pair of the files.
C9_AsClaimed ==
    (op.name = "get_visualizer_setup" /\ op.exc = "")
    => Cardinality(DOMAIN store.benchmarks) >= Cardinality(LoadedPairs)

\* the versions of the records in the files that get_visualizer_setup is to load
LoadedVersions == UNION {DOMAIN disk[w].file.doc : w \in Loaded(disk)}

\* C13 (as claimed): get_visualizer_setup skips a workload whose result file
\* is absent or zero-length without an error, with or without its results
\* directory, and still loads the records of the other workloads.
C13_AsClaimed ==
    op.name = "get_visualizer_setup"
    => /\ op.exc = ""
       /\ DOMAIN store.benchmarks = LoadedVersions

----------------------------------------------------------------------------
(* Claims on the readers that require their file *)

\* C12: from_path raises FileNotFoundError for a nonexistent path and for a
\* zero-length file, and the engine's report raises FileNotFoundError when
\* benchmark_results.json is absent; none of them yields a record or summary.
C12_NotFound ==
    /\ (op.name = "from_path" /\ disk[op.path].file.kind \in {"absent", "empty"})
          => op.exc = "FileNotFoundError" /\ bench = Benchmark(None, None)
    /\ (report_ret.call = "report" /\ ~results_json.exists)
          => /\ report_ret.kind = "FileNotFoundError"
             /\ report_ret = EngineOutcome("report", "FileNotFoundError",
                                           Finite(NoRat), Finite(NoRat), FALSE)

C12_Witness ==
    /\ op.name = "from_path"
    /\ disk[op.path].file.kind = "empty"
    /\ op.exc = "FileNotFoundError"
    /\ report_ret.call = "report"
    /\ ~results_json.exists
    /\ report_ret.kind = "FileNotFoundError"

----------------------------------------------------------------------------
(* Claims on run_benchmark *)

\* the sample of an invocation: the duration that Timer measures, or the
\* contents of bench_time.txt when the process has ended
Observed(e) == IF frame.fn = "Utilities" THEN e.time_taken ELSE e.bench_time.value

\* C16: a run_benchmark call with N iterations that returns has run exactly 2N
\* processes, the N of the warm-up loop before the N of the benchmark loop,
\* and returns N warm-up and N benchmark samples in the order of the runs.
C16_TwoPhases ==
    frame.phase = "returned" =>
        LET N == frame.iterations
        IN  /\ Len(invocations) = 2 * N
            /\ Len(frame.warmup) = N
            /\ Len(frame.benchmark) = N
            /\ \A i \in 1 .. Len(invocations) :
                  /\ invocations[i].returncode = 0
                  /\ invocations[i].phase = IF i <= N THEN "warmup" ELSE "benchmark"
            /\ \A i \in 1 .. N :
                  /\ frame.warmup[i] = Observed(invocations[i])
                  /\ frame.benchmark[i] = Observed(invocations[N + i])

C16_Witness ==
    /\ frame.phase = "returned"
    /\ frame.fn = "Utilities"
    /\ frame.iterations = ITERATIONS
    /\ Len(invocations) = 2 * ITERATIONS
    /\ frame.warmup[1] # frame.warmup[2]
    /\ frame.benchmark[1] # frame.benchmark[2]

----------------------------------------------------------------------------
(* Claims on main.py *)

\* the result file of the workload and version of the loop
ResultsFile == results_file[<<entry, py_version>>]

\* a file that is absent, zero-length or a whole document with the four series
Whole(file) ==
    \/ file.kind \in {"absent", "empty"}
    \/ /\ file.kind = "json"
       /\ DOMAIN file.doc = {"nuitka", "cpython"}
       /\ \A mode \in DOMAIN file.doc : DOMAIN file.doc[mode] = {"warmup", "benchmark"}

\* C14 (as claimed): whenever main.py is not inside its write step, also after
\* an interruption in the middle of that step, every result file is absent,
\* zero-length or a complete JSON document with all four series.
C14_AsClaimed ==
    pc # "dump" => \A p \in Pairs : Whole(results_file[p])

\* every process of the history has ended with exit code 0
AllZero == \A i \in DOMAIN invocations : invocations[i].returncode = 0

\* both modes have completed the warm-up and the measurement loop, the
\* compiled mode first
BothModesCompleted ==
    /\ Len(invocations) = 4 * ITERATIONS
    /\ AllZero
    /\ \A i \in DOMAIN invocations :
          /\ invocations[i].type = IF i <= 2 * ITERATIONS THEN "Nuitka" ELSE "CPython"
          /\ invocations[i].phase =
                IF (i - 1) % (2 * ITERATIONS) < ITERATIONS THEN "warmup" ELSE "benchmark"

\* C15 (as claimed): the result file of a workload is zero-length from before
\* its environment is provisioned, is non-empty only after both modes have
\* completed all warm-up and measurement repetitions with exit code 0, and is
\* still zero-length when the workload has failed or was interrupted before
\* the end of its write step.
C15_AsClaimed ==
    [][/\ pc' \in {"venv", "commands", "nuitka", "cpython", "write"}
             => ResultsFile'.kind = "empty"
       /\ (pc' \in {"dump", "stats", "finally"} /\ ResultsFile'.kind # "empty")
             => BothModesCompleted'
       /\ (pc \in {"commands", "nuitka", "cpython", "write", "dump"} /\ after' = "break")
             => ResultsFile'.kind = "empty"]_vars

\* the last process of the history has ended with a non-zero exit code
LastFailed == invocations # <<>> /\ invocations[Len(invocations)].returncode # 0

\* C17: a non-zero exit code of a warm-up or measurement process makes
\* run_benchmark raise at once: no other process of the workload follows it in
\* either loop or in the other mode, and no series is returned or stored.
C17_FailFast ==
    /\ \A i \in DOMAIN invocations : i < Len(invocations) => invocations[i].returncode = 0
    /\ LastFailed =>
          /\ frame.phase = "raised"
          /\ frame.exc = "RuntimeError"
          /\ frame.warmup = <<>> /\ frame.benchmark = <<>>
          /\ pc \in {"nuitka", "cpython", "finally", "crashed"}
          /\ bench_results[IF invocations[Len(invocations)].type = "Nuitka"
                           THEN "nuitka" ELSE "cpython"] = Series(<<>>, <<>>)
          /\ ResultsFile.kind = "empty"

C17_Witness ==
    /\ LastFailed
    /\ Len(invocations) = ITERATIONS + 1
    /\ invocations[Len(invocations)].type = "Nuitka"
    /\ invocations[Len(invocations)].phase = "benchmark"
    /\ pc = "finally"
    /\ after = "break"
    /\ ResultsFile.kind = "empty"

\* the (version, workload) pairs of the launcher's versions and the workload
\* directories
AllAttempts == {<<v, w>> : v \in Versions, w \in Workloads}

\* C18 (as claimed): when workloads have failed because an external command
\* exited non-zero and there was no interrupt, the run still attempts every
\* remaining workload of every version.
C18_AsClaimed ==
    (pc = "done" /\ causes \subseteq {"provisioning", "missing", "exit"})
    => attempted = AllAttempts

\* C19 (as claimed): after an operator interrupt no further workload is
\* started, for the version of the loop or for a later one.
C19_AsClaimed ==
    [][("interrupt" \in causes) => attempted' = attempted]_vars

\* C20: a workload directory without run_benchmark.py is skipped: no
\* environment is created and no command is run for it, the working directory
\* is the one from before, and the loop goes on with the next entry.
C20_SkipWithoutScript ==
    [][(pc = "enter" /\ ~tree[entry].script /\ pc' # "crashed")
       => /\ pc' = "workloads"
          /\ todo' = todo /\ versions' = versions
          /\ cwd' = cwd
          /\ tree' = tree
          /\ ran' = <<>> /\ invocations' = <<>>
          /\ ResultsFile'.kind = "empty"]_vars

C20_Witness ==
    /\ pc = "workloads"
    /\ entry \in Workloads
    /\ <<py_version, entry>> \in attempted
    /\ ~tree[entry].script
    /\ ResultsFile.kind = "empty"
    /\ cwd = "."
    /\ ran = <<>>
    /\ todo # <<>>

----------------------------------------------------------------------------
(* Claims on records that lack the samples of a mode *)

\* the stats of a mode are missing, or one of its two series is empty
LacksSamples(stats) == stats.is_none \/ stats.warmup = <<>> \/ stats.benchmark = <<>>

\* C21 (as claimed): when the record lacks the samples of one mode,
\* calculate_stats ends in an error for either value of `which`, and
\* to_json_file ends in an error and writes nothing.
C21_AsClaimed ==
    (LacksSamples(bench.nuitka_stats) \/ LacksSamples(bench.cpython_stats))
    => /\ ret.op \in {"calculate_stats", "to_json_file"} => ret.exc # ""
       /\ stats_file = NoStatsFile

----------------------------------------------------------------------------
(* Claims on the environment of the child processes *)

\* the variable of the host that a name of the child's environment denotes
HostKey(name) == encodekey(os_name, name)

\* the allow-list of the platform, as a set
AllowList ==
    IF os_name = "nt"
    THEN {NECESSARY_ENV_VARS_NT[i] : i \in DOMAIN NECESSARY_ENV_VARS_NT}
    ELSE {"HOME", "PATH"}

\* C22: the environment given to a child is the host environment restricted
\* to the allow-list of the platform (HOME and PATH outside Windows): each of
\* its variables is allow-listed and has the host's value, each allow-listed
\* variable set on the host is in it, and no other host variable is.
C22_AllowListed ==
    completed.spawned =>
        /\ \A n \in DOMAIN popen_env :
              /\ n \in AllowList
              /\ HostKey(n) \in DOMAIN environ
              /\ popen_env[n] = environ[HostKey(n)]
        /\ \A n \in AllowList :
              HostKey(n) \in DOMAIN environ => n \in DOMAIN popen_env
        /\ \A h \in DOMAIN environ :
              (\A n \in AllowList : HostKey(n) # h)
                  => \A n \in DOMAIN popen_env : HostKey(n) # h /\ n # h
        /\ os_name # "nt" => DOMAIN popen_env \subseteq {"HOME", "PATH"}

\* a host with a variable outside the allow-list and one inside it
C22_Witness ==
    /\ completed.spawned
    /\ os_name = "posix"
    /\ DOMAIN environ = {"HOME", "PATH", "NUITKA_TOKEN", "TEMP"}
    /\ popen_env = [n \in {"HOME", "PATH"} |-> environ[n]]

----------------------------------------------------------------------------
(* Claims on the cleaning up after a workload *)

\* the loop is between two workloads, or the run has ended
BetweenWorkloads == pc \in {"workloads", "versions", "done"}

\* C23 (as claimed): when the next workload starts or the run ends, no
\* workload directory holds a virtual environment or run_benchmark.dist (none
\* exists when the run starts, so each one found was made by an attempt).
C23_AsClaimed ==
    BetweenWorkloads => \A w \in Workloads : tree[w].venv = {} /\ ~tree[w].dist

----------------------------------------------------------------------------
(* Claims on the working directory *)

\* C25 (as claimed): on every exit from the block of temporary_directory_change
\* (its end, continue, break, an exception of the body) the working directory
\* is the one from before the block.
C25_AsClaimed ==
    [][(pc \in InBlock \cup {"enter"} /\ pc' \notin InBlock \cup {"enter"})
           => cwd' = current_directory]_vars

----------------------------------------------------------------------------
(* Claims on a provisioning command that fails *)

\* a provisioning command of the workload of the loop has exited with a
\* non-zero code
ProvisioningFailed ==
    \E i \in DOMAIN ran : ran[i].command # "venv" /\ ran[i].returncode # 0

\* C28 (as claimed): after a provisioning command of a workload has exited
\* with a non-zero code, no process of either mode is run for the workload and
\* its result file stays without samples.
C28_AsClaimed ==
    ProvisioningFailed => /\ invocations = <<>>
                          /\ ResultsFile.kind = "empty"

----------------------------------------------------------------------------
(* Claims on bench_time.txt *)

\* the samples that the call under way has recorded, in the order of the runs
Recorded == frame.warmup \o frame.benchmark

\* C29 (as claimed): every sample that benchengine.run_benchmark records is
\* the duration that the invocation which has just ended wrote to
\* bench_time.txt, never a value that was in the file before it.
C29_AsClaimed ==
    (frame.fn = "benchengine" /\ frame.phase \in {"warmup", "benchmark", "returned"})
    => /\ Len(Recorded) = Len(invocations)
       /\ \A i \in DOMAIN Recorded :
             /\ invocations[i].writes
             /\ Recorded[i] = invocations[i].time_taken

----------------------------------------------------------------------------
(* Claims on the exclusions *)

\* the table of the platform lists the name under the version
ListedUnder(system, version, name) ==
    \E i \in DOMAIN EXCLUSIONS(system) :
        EXCLUSIONS(system)[i].key = version /\ name \in EXCLUSIONS(system)[i].value

\* C30 (as claimed): check_if_excluded returns True exactly when the table of
\* the current platform lists the workload under the version that is running.
C30_AsClaimed ==
    excluded.called =>
        (excluded.result <=> ListedUnder(CURRENT_PLATFORM, PYTHON_VERSION, excluded.name))

\* the running version is at most 3.minor
UpTo(minor) == PYTHON_VERSION[1] < 3 \/ (PYTHON_VERSION[1] = 3 /\ PYTHON_VERSION[2] <= minor)

\* C30 (amended): check_if_excluded returns True exactly when the table of the
\* current platform lists the workload under a version that is not below the
\* running one: bm_django_template up to 3.9 on Linux and Windows, bm_2to3 up
\* to 3.12 on Linux, and nothing on another platform.
C30_UpToVersion ==
    excluded.called =>
        (excluded.result <=>
            \/ /\ CURRENT_PLATFORM \in {"Linux", "Windows"}
               /\ excluded.name = "bm_django_template"
               /\ UpTo(9)
            \/ /\ CURRENT_PLATFORM = "Linux"
               /\ excluded.name = "bm_2to3"
               /\ UpTo(12))

\* a workload listed only under 3.12 is excluded when 3.8 is running
C30_Witness ==
    /\ excluded = Checked("bm_2to3", TRUE)
    /\ CURRENT_PLATFORM = "Linux"
    /\ PYTHON_VERSION = <<3, 8>>

----------------------------------------------------------------------------
(* Claims on the rewriting of run_benchmark.py *)

\* the node or one of its descendants satisfies the test
RECURSIVE Occurs(_, _)
Occurs(target, node) ==
    \/ node = target
    \/ \E i \in DOMAIN node.value : Occurs(target, node.value[i])
    \/ \E i \in DOMAIN node.args : Occurs(target, node.args[i])

\* the tree with every Path(__file__).parent, os.path.dirname(__file__) and
\* mapped literal replaced, and every other node as it is
RECURSIVE Substituted(_)
Substituted(node) ==
    IF node = FileParent THEN PathCwd
    ELSE IF node = DirnameOfFile THEN OsGetcwd
    ELSE IF benchmark_path = "bm_pyflate" /\ node = Constant("data/interpreter.tar.bz2")
    THEN Constant("/suite/benchmarks/bm_pyflate/data/interpreter.tar.bz2")
    ELSE [node EXCEPT !.value = [i \in DOMAIN node.value |-> Substituted(node.value[i])],
                      !.args = [i \in DOMAIN node.args |-> Substituted(node.args[i])]]

\* C24: for a workload with an entry in the mapping, the script after
\* prepare_benchmark_file holds no Path(__file__).parent and no
\* os.path.dirname(__file__) at any depth, in a single field or in a list, and
\* no mapped literal; Path.cwd(), os.getcwd() and the resolved path stand in
\* their places and every other node is as it was.
C24_Rewritten ==
    [][(benchmark_path \in Mapped /\ ~prepared /\ prepared')
          => /\ ~Occurs(FileParent, run_benchmark_py'.tree)
             /\ ~Occurs(DirnameOfFile, run_benchmark_py'.tree)
             /\ benchmark_path = "bm_pyflate"
                   => ~Occurs(Constant("data/interpreter.tar.bz2"), run_benchmark_py'.tree)
             /\ run_benchmark_py'.tree = Substituted(run_benchmark_py.tree)]_vars

\* both expressions replaced, one in the single field of a statement and one
\* in the list of the arguments of a call, and the mapped literal resolved
C24_Witness ==
    /\ prepared
    /\ benchmark_path = "bm_pyflate"
    /\ run_benchmark_py.tree =
          Module(<<Expr(PathCwd),
                   Expr(Call(Name("f"),
                            <<Constant("/suite/benchmarks/bm_pyflate/data/interpreter.tar.bz2"),
                              OsGetcwd>>))>>)

----------------------------------------------------------------------------
(* Claims on the compile functions *)

CompileEnded == compile_pc \in {"returned", "raised"}

\* C26: when Benchmark.compile of the engine has returned or raised,
\* run_benchmark.py holds the contents it had before the call, whether the
\* compiler succeeded, exited with a non-zero code or a command raised.
C26_Restored ==
    (compiler = "engine" /\ CompileEnded) => run_benchmark_py = contents_before

\* the rewritten script was in the file and RuntimeError has left the call
C26_Witness ==
    /\ compiler = "engine"
    /\ compile_pc = "raised"
    /\ compile_exc = "RuntimeError"
    /\ benchmark_path = "bm_pyflate"
    /\ prepared
    /\ prepare_benchmark_file(benchmark_path, contents_before) # contents_before
    /\ run_benchmark_py = Contents(Module(<<Expr(FileParent)>>), "author")

\* C27 (as claimed): when compile_benchmark of rework has returned or raised,
\* run_benchmark.py holds the contents it had before the call, also after a
\* non-zero exit code of the compiler.
C27_AsClaimed ==
    (compiler = "rework" /\ CompileEnded) => run_benchmark_py = contents_before

=============================================================================
